---- MODULE Spec2Model ----
(***************************************************************************)
(* Conversational routing and tool dispatch of the store-visit tracker:    *)
(* the manual router (manual_router.py), the tool registry                 *)
(* (tools/__init__.py), the action tools (tools/actions.py), the store     *)
(* connection helpers (tools/db.py) and the orchestrator (jax_agent.py).   *)
(***************************************************************************)
EXTENDS Integers, Sequences, FiniteSets, TLC

(***************************************************************************)
(* Strings.  A message is a TLA+ string; Len, SubSeq and \o work on it.    *)
(* The operators of this section and of the regular-expression section     *)
(* give the semantics of Python's str methods and re module, which the     *)
(* repository calls but does not define.                                   *)
(***************************************************************************)
UpperChars == "ABCDEFGHIJKLMNOPQRSTUVWXYZ"

LowerChars == "abcdefghijklmnopqrstuvwxyz"

DigitChars == "0123456789"

CharAt(s, i) == SubSeq(s, i, i)

CharSet(chars) == { CharAt(chars, k) : k \in 1..Len(chars) }

UpperSet == CharSet(UpperChars)

LowerSet == CharSet(LowerChars)

DigitSet == CharSet(DigitChars)

\* \w of the re module on the characters the messages use
WordSet == UpperSet \cup LowerSet \cup DigitSet \cup {"_"}

InChars(c, chars) == c \in CharSet(chars)

IsDigit(c) == c \in DigitSet

IsWordChar(c) == c \in WordSet

\* \s of the re module on the characters the messages use
IsSpace(c) == c = " "

LowerChar(c) ==
  IF c \in UpperSet
    THEN CharAt(LowerChars, CHOOSE k \in 1..Len(UpperChars) : CharAt(UpperChars, k) = c)
    ELSE c

RECURSIVE LowerFrom(_, _)
LowerFrom(s, i) == IF i > Len(s) THEN "" ELSE LowerChar(CharAt(s, i)) \o LowerFrom(s, i + 1)

\* str.lower()
Lower(s) == LowerFrom(s, 1)

\* the literal lit occurs in s at position i
LitAt(s, i, lit) == i >= 1 /\ i + Len(lit) - 1 <= Len(s) /\ SubSeq(s, i, i + Len(lit) - 1) = lit

\* Python's  kw in s
In(kw, s) == \E i \in 1..(Len(s) - Len(kw) + 1) : LitAt(s, i, kw)

\* any(kw in s for kw in kws)
AnyIn(kws, s) == \E kw \in kws : In(kw, s)

\* \b at the gap before position i
WordBoundary(s, i) ==
  LET before == i >= 2 /\ i - 1 <= Len(s) /\ IsWordChar(CharAt(s, i - 1))
      after == i >= 1 /\ i <= Len(s) /\ IsWordChar(CharAt(s, i))
  IN before # after

\* str.strip() for the blank this alphabet has
RECURSIVE Strip(_)
Strip(s) ==
  IF Len(s) = 0 THEN s
  ELSE IF IsSpace(CharAt(s, 1)) THEN Strip(SubSeq(s, 2, Len(s)))
  ELSE IF IsSpace(CharAt(s, Len(s))) THEN Strip(SubSeq(s, 1, Len(s) - 1))
  ELSE s

\* int() of a string of decimal digits
DigitVal(c) == (CHOOSE k \in 1..10 : CharAt(DigitChars, k) = c) - 1

RECURSIVE ToInt(_)
ToInt(s) == IF Len(s) = 0 THEN 0 ELSE 10 * ToInt(SubSeq(s, 1, Len(s) - 1)) + DigitVal(CharAt(s, Len(s)))

(***************************************************************************)
(* Python values that cross the tool boundary, tagged by type.             *)
(***************************************************************************)
None == [t |-> "none"]

Str(x) == [t |-> "str", v |-> x]

Num(n) == [t |-> "int", v |-> n]

Bool(b) == [t |-> "bool", v |-> b]

\* x if the Optional[str] x is a string, else None
OptStr(found, x) == IF found THEN Str(x) ELSE None

\* Python truthiness of a tagged value
Truthy(x) ==
  CASE x.t = "none" -> FALSE
    [] x.t = "str" -> Len(x.v) > 0
    [] x.t = "int" -> x.v # 0
    [] x.t = "bool" -> x.v

(***************************************************************************)
(* Tool registry (tools/__init__.py) and the declared parameters of every  *)
(* tool (the def lines of tools/*.py).                                     *)
(***************************************************************************)
QUERY_TOOLS ==
  << "search_visits", "get_visit_details", "analyze_trends", "compare_stores",
     "search_notes", "get_market_insights", "get_market_note_status", "get_market_note_updates",
     "get_champions", "get_mentees", "get_contacts",
     "get_gold_stars", "get_enablers", "get_issues", "get_tasks", "get_user_notes",
     "get_summary_stats",
     "get_store_information" >>

ACTION_TOOLS ==
  << "mark_gold_star_complete", "save_gold_star_notes",
     "create_contact", "delete_contact",
     "create_task", "update_task_status", "delete_task",
     "update_market_note_status", "assign_market_note", "add_market_note_comment",
     "mark_market_note_complete",
     "create_champion", "delete_champion",
     "create_mentee", "delete_mentee",
     "mark_enabler_complete", "create_enabler",
     "create_issue" >>

ALL_TOOLS == QUERY_TOOLS \o ACTION_TOOLS

\* the keys of  {tool.__name__: tool for tool in ALL_TOOLS}
TOOL_FUNCTIONS == { ALL_TOOLS[i] : i \in 1..Len(ALL_TOOLS) }

ActionToolNames == { ACTION_TOOLS[i] : i \in 1..Len(ACTION_TOOLS) }

\* declared parameters of each tool: all of them, and those without a default
ToolParams(tool) ==
  CASE tool = "search_visits" -> [all |-> {"store_nbr", "limit", "rating"}, required |-> {"store_nbr"}]
    [] tool = "get_visit_details" -> [all |-> {"visit_id"}, required |-> {"visit_id"}]
    [] tool = "analyze_trends" -> [all |-> {"store_nbr", "days"}, required |-> {"store_nbr"}]
    [] tool = "compare_stores" -> [all |-> {"store_list"}, required |-> {"store_list"}]
    [] tool = "search_notes" -> [all |-> {"keyword", "limit"}, required |-> {"keyword"}]
    [] tool = "get_market_insights" -> [all |-> {"days"}, required |-> {}]
    [] tool = "get_market_note_status" -> [all |-> {"status_filter"}, required |-> {}]
    [] tool = "get_market_note_updates" -> [all |-> {"note_text"}, required |-> {}]
    [] tool = "get_champions" -> [all |-> {}, required |-> {}]
    [] tool = "get_mentees" -> [all |-> {"store_nbr"}, required |-> {}]
    [] tool = "get_contacts" -> [all |-> {"search_term", "department"}, required |-> {}]
    [] tool = "get_gold_stars" -> [all |-> {"week_date", "week_number"}, required |-> {}]
    [] tool = "get_enablers" -> [all |-> {"status_filter", "week_number"}, required |-> {}]
    [] tool = "get_issues" -> [all |-> {"status_filter", "type_filter"}, required |-> {}]
    [] tool = "get_tasks" -> [all |-> {"status_filter", "assigned_to", "store_number"}, required |-> {}]
    [] tool = "get_user_notes" -> [all |-> {"search_query", "folder_path"}, required |-> {}]
    [] tool = "get_summary_stats" -> [all |-> {}, required |-> {}]
    [] tool = "get_store_information" -> [all |-> {"store_number"}, required |-> {}]
    [] tool = "mark_gold_star_complete" ->
         [all |-> {"store_nbr", "note_number", "completed", "week_id"}, required |-> {"store_nbr", "note_number"}]
    [] tool = "save_gold_star_notes" -> [all |-> {"note_1", "note_2", "note_3"}, required |-> {"note_1", "note_2", "note_3"}]
    [] tool = "create_contact" ->
         [all |-> {"name", "title", "department", "reports_to", "phone", "email", "notes"}, required |-> {"name"}]
    [] tool = "delete_contact" -> [all |-> {"contact_id", "name"}, required |-> {}]
    [] tool = "create_task" ->
         [all |-> {"content", "priority", "assigned_to", "due_date", "store_number", "list_name", "notes"},
          required |-> {"content"}]
    [] tool = "update_task_status" -> [all |-> {"task_id", "status"}, required |-> {"task_id", "status"}]
    [] tool = "delete_task" -> [all |-> {"task_id"}, required |-> {"task_id"}]
    [] tool = "update_market_note_status" ->
         [all |-> {"visit_id", "note_text", "status"}, required |-> {"visit_id", "note_text", "status"}]
    [] tool = "assign_market_note" ->
         [all |-> {"visit_id", "note_text", "assigned_to"}, required |-> {"visit_id", "note_text", "assigned_to"}]
    [] tool = "add_market_note_comment" ->
         [all |-> {"visit_id", "note_text", "comment"}, required |-> {"visit_id", "note_text", "comment"}]
    [] tool = "mark_market_note_complete" -> [all |-> {"visit_id", "note_text"}, required |-> {"visit_id", "note_text"}]
    [] tool = "create_champion" -> [all |-> {"name", "responsibility"}, required |-> {"name", "responsibility"}]
    [] tool = "delete_champion" -> [all |-> {"champion_id", "name"}, required |-> {}]
    [] tool = "create_mentee" ->
         [all |-> {"name", "store_nbr", "position", "cell_number", "notes"}, required |-> {"name"}]
    [] tool = "delete_mentee" -> [all |-> {"mentee_id", "name"}, required |-> {}]
    [] tool = "mark_enabler_complete" ->
         [all |-> {"enabler_id", "store_nbr", "completed"}, required |-> {"enabler_id", "store_nbr"}]
    [] tool = "create_enabler" -> [all |-> {"title", "description", "source"}, required |-> {"title"}]
    [] tool = "create_issue" -> [all |-> {"issue_type", "title", "description"}, required |-> {"issue_type", "title"}]

(***************************************************************************)
(* The regular expressions of manual_router.py.  A pattern is a sequence   *)
(* of elements; Ends gives every position the re module can reach after    *)
(* matching it from a position of P, and Search picks among them as the    *)
(* backtracking matcher does: leftmost start, greedy elements longest      *)
(* first, a lazy group shortest first.                                     *)
(***************************************************************************)
Lit(x) == [k |-> "lit", v |-> x]

\* alternation of literals, e.g. (?:told|said)
Alt(xs) == [k |-> "alt", v |-> [j \in 1..Len(xs) |-> << Lit(xs[j]) >>]]

\* alternation of patterns
AltP(ps) == [k |-> "alt", v |-> ps]

Opt(pt) == [k |-> "opt", v |-> pt]

\* \s+ and \s*
WS1 == [k |-> "many", v |-> "s", min |-> 1]

WS0 == [k |-> "many", v |-> "s", min |-> 0]

\* one character of a class, one or more, zero or more
One(cls) == [k |-> "one", v |-> cls]

Many1(cls) == [k |-> "many", v |-> cls, min |-> 1]

EOS == [k |-> "eos", v |-> ""]

\* ^
BOS == [k |-> "bos", v |-> ""]

WB == [k |-> "wb", v |-> ""]

\* character classes: w \w, d \d, s \s, any ., upper [A-Z], lower [a-z],
\* nq [^"\'], nqq [^"\'?], nqcp [^"\',.], sep [-.\s], mailu [\w.+-], maild [\w-], mailt [\w.-]
ClassHas(cls, c) ==
  CASE cls = "w" -> IsWordChar(c)
    [] cls = "d" -> IsDigit(c)
    [] cls = "s" -> IsSpace(c)
    [] cls = "any" -> TRUE
    [] cls = "upper" -> c \in UpperSet
    [] cls = "lower" -> c \in LowerSet
    [] cls = "quote" -> c \in {"\"", "'"}
    [] cls = "nq" -> c \notin {"\"", "'"}
    [] cls = "nqq" -> c \notin {"\"", "'", "?"}
    [] cls = "nqcp" -> c \notin {"\"", "'", ",", "."}
    [] cls = "sep" -> c \in {"-", "."} \/ IsSpace(c)
    [] cls = "mailu" -> IsWordChar(c) \/ c \in {".", "+", "-"}
    [] cls = "maild" -> IsWordChar(c) \/ c = "-"
    [] cls = "mailt" -> IsWordChar(c) \/ c \in {".", "-"}

\* first position from p on whose character is not of the class
RECURSIVE RunEnd(_, _, _)
RunEnd(s, p, cls) ==
  IF p <= Len(s) /\ ClassHas(cls, CharAt(s, p)) THEN RunEnd(s, p + 1, cls) ELSE p

\* positions q >= p + min such that s[p..q-1] are all of the class
ManyEnds(s, p, cls, min) == (p + min)..RunEnd(s, p, cls)

RECURSIVE EndsFrom(_, _, _, _)
EndsElem(s, P, e) ==
  CASE e.k = "lit" -> { p + Len(e.v) : p \in { q \in P : LitAt(s, q, e.v) } }
    [] e.k = "alt" -> UNION { EndsFrom(s, P, e.v[a], 1) : a \in 1..Len(e.v) }
    [] e.k = "opt" -> P \cup EndsFrom(s, P, e.v, 1)
    [] e.k = "one" -> { p + 1 : p \in { q \in P : q <= Len(s) /\ ClassHas(e.v, CharAt(s, q)) } }
    [] e.k = "many" -> UNION { ManyEnds(s, p, e.v, e.min) : p \in P }
    [] e.k = "eos" -> { p \in P : p = Len(s) + 1 }
    [] e.k = "bos" -> { p \in P : p = 1 }
    [] e.k = "wb" -> { p \in P : WordBoundary(s, p) }

EndsFrom(s, P, pat, j) ==
  IF j > Len(pat) \/ P = {} THEN P ELSE EndsFrom(s, EndsElem(s, P, pat[j]), pat, j + 1)

Ends(s, P, pat) == EndsFrom(s, P, pat, 1)

SetMin(S) == CHOOSE x \in S : \A y \in S : x <= y

SetMax(S) == CHOOSE x \in S : \A y \in S : x >= y

\* for each pattern of pats and each position of s, the ends of its matches from there
ReachAll(s, pats) == [k \in 1..Len(pats) |-> [p \in 1..(Len(s) + 1) |-> Ends(s, {p}, pats[k])]]

\* R = ReachAll(s, << pre, cap, post >>): ends of the group from p after which post still matches
GroupEnds(R, p) == { e \in R[2][p] : R[3][e] # {} }

\* starts of the group that pre can reach from the match start i
GroupStarts(R, i) == { p \in R[1][i] : GroupEnds(R, p) # {} }

NoMatch == [found |-> FALSE, g |-> "", from |-> 0, to |-> 0]

\* the shortest (lazy) or the longest (greedy) alternative
Pick(lazy, S) == IF lazy THEN SetMin(S) ELSE SetMax(S)

\* the match that starts at i with its group spanning [p, e)
MatchAt(s, R, i, p, e, lazy) ==
  [found |-> TRUE, g |-> SubSeq(s, p, e - 1), from |-> i, to |-> Pick(lazy, R[3][e])]

\* the match that starts at i with its group starting at p
MatchGroup(s, R, i, p, lazy) == MatchAt(s, R, i, p, Pick(lazy, GroupEnds(R, p)), lazy)

\* the match at the leftmost of the starts
MatchFirst(s, R, starts, lazy) ==
  IF starts = {} THEN NoMatch
  ELSE MatchGroup(s, R, SetMin(starts), SetMax(GroupStarts(R, SetMin(starts))), lazy)

MatchIn(s, R, lazy) == MatchFirst(s, R, { i \in 1..(Len(s) + 1) : GroupStarts(R, i) # {} }, lazy)

\* re.search(pre (cap) post, s): the match, its group(1) and its span [from, to)
Search(s, pre, cap, lazy, post) == MatchIn(s, ReachAll(s, << pre, cap, post >>), lazy)

\* re.search of a pattern without a group
Matches(s, pat) == \E i \in 1..(Len(s) + 1) : Ends(s, {i}, pat) # {}

\* re.sub(pat, '', s) with the match positions taken on low, the text the
\* pattern sees (s itself, or s lowered under re.IGNORECASE)
RECURSIVE SubFrom(_, _, _, _)
\* the text before the match at j, then the rest after the longest match
SubCut(s, low, R, i, j) == SubSeq(s, i, j - 1) \o SubFrom(s, low, R, SetMax(R[1][j]))

SubAt(s, low, R, i, starts) ==
  IF starts = {} THEN SubSeq(s, i, Len(s)) ELSE SubCut(s, low, R, i, SetMin(starts))

SubFrom(s, low, R, i) ==
  IF i > Len(s) THEN "" ELSE SubAt(s, low, R, i, { j \in i..(Len(s) + 1) : R[1][j] # {} })

SubIgnoreCase(s, pat) == SubFrom(s, Lower(s), ReachAll(Lower(s), << pat >>), 1)

\* str.split(): the maximal runs without blanks
RECURSIVE SplitFrom(_, _)
SplitFrom(s, i) ==
  IF i > Len(s) THEN << >>
  ELSE IF IsSpace(CharAt(s, i)) THEN SplitFrom(s, i + 1)
  ELSE LET e == SetMax({ q \in i..Len(s) : \A r \in i..q : ~IsSpace(CharAt(s, r)) })
       IN << SubSeq(s, i, e) >> \o SplitFrom(s, e + 1)

Split(s) == SplitFrom(s, 1)

\* ' '.join(words)
RECURSIVE JoinWords(_)
JoinWords(ws) ==
  IF Len(ws) = 0 THEN ""
  ELSE IF Len(ws) = 1 THEN ws[1]
  ELSE ws[1] \o " " \o JoinWords(Tail(ws))

\* ','.join(words)
RECURSIVE JoinComma(_)
JoinComma(ws) ==
  IF Len(ws) = 0 THEN ""
  ELSE IF Len(ws) = 1 THEN ws[1]
  ELSE ws[1] \o "," \o JoinComma(Tail(ws))

\* sep.join(words)
RECURSIVE Join(_, _)
Join(sep, ws) ==
  IF Len(ws) = 0 THEN ""
  ELSE IF Len(ws) = 1 THEN ws[1]
  ELSE ws[1] \o sep \o Join(sep, Tail(ws))

\* str.split(sep) for a separator of one character
RECURSIVE SplitOn(_, _)
SplitOn(s, sep) ==
  IF \A i \in 1..Len(s) : CharAt(s, i) # sep THEN << s >>
  ELSE << SubSeq(s, 1, SetMin({ i \in 1..Len(s) : CharAt(s, i) = sep }) - 1) >>
       \o SplitOn(SubSeq(s, SetMin({ i \in 1..Len(s) : CharAt(s, i) = sep }) + 1, Len(s)), sep)

\* str.rstrip(chars)
RECURSIVE RStrip(_, _)
RStrip(s, chars) ==
  IF Len(s) > 0 /\ InChars(CharAt(s, Len(s)), chars) THEN RStrip(SubSeq(s, 1, Len(s) - 1), chars) ELSE s

(***************************************************************************)
(* ManualRouter: the extraction helpers.                                   *)
(***************************************************************************)
\* re.findall(r'\b\d{4,5}\b', message)
RECURSIVE NumbersFrom(_, _)
NumbersFrom(s, i) ==
  LET ends == Ends(s, {i}, << WB, One("d"), One("d"), One("d"), One("d"), Opt(<< One("d") >>), WB >>)
  IN IF i > Len(s) THEN << >>
     ELSE IF ends = {} THEN NumbersFrom(s, i + 1)
     ELSE << SubSeq(s, i, SetMax(ends) - 1) >> \o NumbersFrom(s, SetMax(ends))

ExtractNumbers(message) == NumbersFrom(message, 1)

_extract_rating(message_lower) ==
  IF In("green", message_lower) THEN Str("Green")
  ELSE IF In("yellow", message_lower) THEN Str("Yellow")
  ELSE IF In("red", message_lower) THEN Str("Red")
  ELSE None

_extract_status(message_lower) ==
  IF In("in progress", message_lower) \/ In("in_progress", message_lower) THEN Str("in_progress")
  ELSE IF In("on hold", message_lower) \/ In("on_hold", message_lower) THEN Str("on_hold")
  ELSE IF In("completed", message_lower) \/ In("done", message_lower) THEN Str("completed")
  ELSE IF In("new", message_lower) \/ In("open", message_lower)
    THEN (IF In("market", message_lower) THEN Str("new") ELSE Str("open"))
  ELSE None

_extract_priority(message_lower) ==
  IF In("high priority", message_lower) \/ In("urgent", message_lower) THEN 3
  ELSE IF In("medium priority", message_lower) THEN 2
  ELSE IF In("low priority", message_lower) THEN 1
  ELSE 0

\* the group  ([A-Z][a-z]+(?:\s+[A-Z][a-z]+)?)  of _extract_name
NameGroup == << One("upper"), Many1("lower"), Opt(<< WS1, One("upper"), Many1("lower") >>) >>

_extract_name_patterns ==
  << [pre |-> << Alt(<< "name", "named", "called" >>), WS1 >>, post |-> << >>],
     [pre |-> << Alt(<< "contact", "champion", "mentee" >>), WS1 >>, post |-> << >>],
     [pre |-> << Lit("add"), WS1 >>, post |-> << WS1, Alt(<< "as", "to", "for" >>) >>],
     [pre |-> << >>, post |-> << WS1, Alt(<< "is", "as" >>), WS1, Alt(<< "a", "the" >>) >>] >>

\* first pattern of a list that matches, 0 if none
FirstFound(found) == IF \E j \in DOMAIN found : found[j] THEN SetMin({ j \in DOMAIN found : found[j] }) ELSE 0

_extract_name(message) ==
  LET ms == [j \in 1..Len(_extract_name_patterns) |->
               Search(message, _extract_name_patterns[j].pre, NameGroup, FALSE, _extract_name_patterns[j].post)]
      j == FirstFound([k \in 1..Len(ms) |-> ms[k].found])
  IN IF j = 0 THEN None ELSE Str(Strip(ms[j].g))

\* rf'{kw}\s+["\']?([^"\',.]+)["\']?'  for the first keyword that matches
_extract_field(message_lower, keywords) ==
  LET ms == [j \in 1..Len(keywords) |->
               Search(message_lower, << Lit(keywords[j]), WS1, Opt(<< One("quote") >>) >>,
                      << Many1("nqcp") >>, FALSE, << Opt(<< One("quote") >>) >>)]
      j == FirstFound([k \in 1..Len(ms) |-> ms[k].found])
  IN IF j = 0 THEN None ELSE Str(Strip(ms[j].g))

\* (\d{3}[-.\s]?\d{3}[-.\s]?\d{4})
_extract_phone(message) ==
  LET m == Search(message, << >>,
                  << One("d"), One("d"), One("d"), Opt(<< One("sep") >>), One("d"), One("d"), One("d"),
                     Opt(<< One("sep") >>), One("d"), One("d"), One("d"), One("d") >>, FALSE, << >>)
  IN IF m.found THEN Str(m.g) ELSE None

\* [\w.+-]+@[\w-]+\.[\w.-]+
_extract_email(message) ==
  LET m == Search(message, << >>,
                  << Many1("mailu"), Lit("@"), Many1("maild"), Lit("."), Many1("mailt") >>, FALSE, << >>)
  IN IF m.found THEN Str(m.g) ELSE None

_extract_task_content(message) ==
  LET c1 == SubIgnoreCase(message,
              << BOS, Alt(<< "create", "add", "new" >>), WS1, Opt(<< Lit("a"), WS1 >>), Lit("task"), WS1,
                 Opt(<< Lit("to"), WS1 >>) >>)
      c2 == SubIgnoreCase(c1, << WS1, Alt(<< "for", "at" >>), WS1, Lit("store"), WS1, Many1("d") >>)
      c3 == SubIgnoreCase(c2,
              << WS1, AltP(<< << Alt(<< "assign", "assigned" >>), WS1, Lit("to") >>, << Lit("for") >> >>),
                 WS1, Many1("w") >>)
  IN IF Len(Strip(c3)) > 0 THEN Strip(c3) ELSE message

(***************************************************************************)
(* ManualRouter: contact questions.                                        *)
(***************************************************************************)
\* (?:\?|$)
QuestionOrEnd == AltP(<< << Lit("?") >>, << EOS >> >>)

\* self.contacts_patterns: each is  pre (.+?) post
contacts_patterns ==
  << [pre |-> << Lit("who"), WS1,
                 AltP(<< << Lit("has") >>, << Alt(<< "handle", "handles" >>) >>,
                         << Alt(<< "oversee", "oversees" >>) >>, << Alt(<< "own", "owns" >>) >>,
                         << Alt(<< "manage", "manages" >>) >>,
                         << Alt(<< "work", "works" >>), WS1, Lit("on") >>,
                         << Lit("is"), WS1, Lit("over") >>,
                         << Lit("is"), WS1, Lit("responsible"), WS1, Lit("for") >>,
                         << Alt(<< "cover", "covers" >>) >>, << Alt(<< "run", "runs" >>) >>,
                         << Alt(<< "lead", "leads" >>) >> >>),
                 WS1 >>,
      post |-> << QuestionOrEnd >>],
     [pre |-> << AltP(<< << Lit("contact") >>, << Lit("person") >>, << Lit("guy") >>,
                         << Lit("point"), WS1, Lit("of"), WS1, Lit("contact") >>, << Lit("poc") >> >>),
                 WS1, Lit("for"), WS1 >>,
      post |-> << QuestionOrEnd >>],
     [pre |-> << Lit("who"), WS1,
                 AltP(<< << Lit("do"), WS1, Lit("i") >>, << Lit("should"), WS1, Lit("i") >>,
                         << Lit("can"), WS1, Lit("i") >>, << Lit("to") >> >>),
                 WS1,
                 AltP(<< << Lit("call") >>, << Lit("contact") >>, << Lit("reach") >>,
                         << Lit("talk"), WS1, Lit("to") >>, << Lit("speak"), WS1, Lit("with") >>,
                         << Lit("ask") >> >>),
                 WS1, Opt(<< Alt(<< "for", "about", "regarding", "on" >>) >>), WS0 >>,
      post |-> << QuestionOrEnd >>],
     [pre |-> << Lit("who"), WS1,
                 AltP(<< << Lit("can"), WS1, Lit("help"), WS1, Lit("with") >>,
                         << Lit("knows"), WS1, Lit("about") >>, << Lit("deals"), WS1, Lit("with") >>,
                         << Lit("works"), WS1, Lit("with") >> >>),
                 WS1 >>,
      post |-> << QuestionOrEnd >>],
     [pre |-> << Lit("who"), WS1, Lit("is"), WS1,
                 Opt(<< AltP(<< << Lit("over"), WS1 >>, << Lit("the"), WS1 >> >>) >>) >>,
      post |-> << Opt(<< WS1, Alt(<< "person", "guy", "contact", "lead" >>) >>), QuestionOrEnd >>],
     [pre |-> << >>,
      post |-> << WS1, Alt(<< "contact", "person", "guy", "lead", "manager" >>), QuestionOrEnd >>],
     [pre |-> << Alt(<< "get", "find", "show" >>), WS1, Opt(<< Lit("me"), WS1 >>), Opt(<< Lit("the"), WS1 >>) >>,
      post |-> << WS1, Alt(<< "contact", "person", "info" >>), QuestionOrEnd >>] >>

\* the match of the first contact pattern that matches (found = FALSE: None)
_match_contacts(message_lower) ==
  LET ms == [j \in 1..Len(contacts_patterns) |->
               Search(message_lower, contacts_patterns[j].pre, << Many1("any") >>, TRUE, contacts_patterns[j].post)]
      j == FirstFound([k \in 1..Len(ms) |-> ms[k].found])
  IN IF j = 0 THEN NoMatch ELSE ms[j]

fallback_patterns ==
  << << Alt(<< "about", "for", "with", "regarding", "on" >>) >>,
     << Alt(<< "name", "named", "called" >>) >>,
     << AltP(<< << Lit("in") >>, << Lit("from") >>, << Alt(<< "handle", "handles" >>) >>,
                << Alt(<< "oversee", "oversees" >>) >>, << Lit("over") >>, << Alt(<< "run", "runs" >>) >> >>) >> >>

\* pop the noise words at the end, then the ones at the start
RECURSIVE PopTail(_, _)
PopTail(words, noise) ==
  IF Len(words) > 0 /\ words[Len(words)] \in noise THEN PopTail(SubSeq(words, 1, Len(words) - 1), noise) ELSE words

RECURSIVE PopHead(_, _)
PopHead(words, noise) ==
  IF Len(words) > 0 /\ words[1] \in noise THEN PopHead(Tail(words), noise) ELSE words

_extract_contact_term(message_lower, contacts_match) ==
  LET fb == [j \in 1..Len(fallback_patterns) |->
               Search(message_lower, fallback_patterns[j] \o << WS1, Opt(<< One("quote") >>) >>,
                      << Many1("nqq") >>, FALSE, << Opt(<< One("quote") >>) >>)]
      j == FirstFound([k \in 1..Len(fb) |-> fb[k].found])
      search_term == IF contacts_match.found THEN RStrip(Strip(contacts_match.g), "?.,!")
                     ELSE IF j = 0 THEN "" ELSE Strip(fb[j].g)
      words1 == PopTail(Split(search_term), {"department", "dept", "area", "section", "team", "the", "a", "an"})
      term1 == IF Len(words1) > 0 THEN JoinWords(words1) ELSE search_term
      words2 == PopHead(words1, {"the", "a", "an", "our", "my"})
      term2 == IF Len(words2) > 0 THEN JoinWords(words2) ELSE term1
  IN IF Len(search_term) = 0 THEN None
     ELSE IF Len(term2) > 0 THEN Str(term2) ELSE None

(***************************************************************************)
(* ManualRouter: associate insight detection (rule 1 of route).            *)
(***************************************************************************)
WordGroup == << Many1("w") >>

insight_trigger_patterns ==
  << [pre |-> << Lit("i"), WS1, Alt(<< "talked", "spoke", "chatted", "met", "visited", "caught up" >>), WS1,
                 Alt(<< "to", "with" >>), WS1 >>, post |-> << >>],
     [pre |-> << Lit("i"), WS1, Lit("spent"), WS1, Opt(<< Lit("some"), WS1 >>), Lit("time"), WS1,
                 Lit("with"), WS1 >>, post |-> << >>],
     [pre |-> << Lit("i"), WS1, Alt(<< "ran", "bumped" >>), WS1, Lit("into"), WS1 >>, post |-> << >>],
     [pre |-> << Lit("i"), WS1, Lit("was"), WS1, Lit("with"), WS1 >>, post |-> << >>],
     [pre |-> << Lit("i"), WS1, Lit("had"), WS1, Lit("a"), WS1,
                 Alt(<< "call", "chat", "meeting", "conversation" >>), WS1, Lit("with"), WS1 >>, post |-> << >>],
     [pre |-> << >>,
      post |-> << WS1, Alt(<< "told", "said", "mentioned", "shared", "informed" >>), WS1, Alt(<< "me", "us" >>) >>],
     [pre |-> << >>, post |-> << WS1, Lit("said"), WS1, Lit("that") >>],
     [pre |-> << Lit("caught"), WS1, Lit("up"), WS1, Lit("with"), WS1 >>, post |-> << >>],
     [pre |-> << Lit("had"), WS1, Lit("a"), WS1, Lit("conversation"), WS1, Lit("with"), WS1 >>, post |-> << >>] >>

skip_words == {"a", "the", "my", "our", "his", "her", "their", "me", "us", "him", "them", "store"}

\* m.group(1).strip() of each trigger pattern on the message
InsightMatches(message_lower) ==
  [j \in 1..Len(insight_trigger_patterns) |->
     Search(message_lower, insight_trigger_patterns[j].pre, WordGroup, FALSE, insight_trigger_patterns[j].post)]

\* the loop over insight_trigger_patterns: the name of the first pattern
\* whose capture is not a skip word
InsightName(message_lower) ==
  LET ms == InsightMatches(message_lower)
      j == FirstFound([k \in 1..Len(ms) |-> ms[k].found /\ Strip(ms[k].g) \notin skip_words])
  IN IF j = 0 THEN [found |-> FALSE, name |-> ""] ELSE [found |-> TRUE, name |-> Strip(ms[j].g)]

(***************************************************************************)
(* ManualRouter.route                                                      *)
(***************************************************************************)
\* {}
NoArgs == [x \in {} |-> None]

Decision(tool, kwargs) == [tool |-> tool, kwargs |-> kwargs]

\* no rule has returned (yet)
NotRouted == Decision("", NoArgs)

\* numbers[0] if numbers else None
FirstNumber(numbers) == IF Len(numbers) > 0 THEN Str(numbers[1]) ELSE None

CompletionWords == {"complete", "done", "finish", "mark"}

\* a test of the singular phrase alone, whatever else the message says
SingleVisit_PhraseOnly(message_lower) ==
  Matches(message_lower, << WB, Alt(<< "last", "most recent", "latest" >>), WS1, Lit("visit"), WB >>)

\* bool(re.search(r'\b(last|most recent|latest)\s+visit\b', m) and 'visits' not in m)
SingleVisit(message_lower) ==
  /\ Matches(message_lower, << WB, Alt(<< "last", "most recent", "latest" >>), WS1, Lit("visit"), WB >>)
  /\ ~In("visits", message_lower)

\* a visit search that names the store parameter as the task tools do
VisitSearch_store_number(numbers, message_lower, rating_filter) ==
  Decision("search_visits",
           [store_number |-> Str(numbers[1]),
            limit |-> Num(IF SingleVisit(message_lower) THEN 1 ELSE 5),
            rating |-> rating_filter])

VisitSearch(numbers, message_lower, rating_filter) ==
  Decision("search_visits",
           [store_nbr |-> Str(numbers[1]),
            limit |-> Num(IF SingleVisit(message_lower) THEN 1 ELSE 5),
            rating |-> rating_filter])

\* query rules that look up the store number before they test any keyword
QueryRoute_StoreNumberFirst(message, message_lower, numbers, rating_filter, status_filter) ==
  IF Len(numbers) > 0 THEN VisitSearch(numbers, message_lower, rating_filter)
  ELSE IF In("champion", message_lower) \/ In("team", message_lower) THEN Decision("get_champions", NoArgs)
  ELSE Decision("get_summary_stats", NoArgs)

\* the rules of route after the action rules: QUERY ROUTING
QueryRoute(message, message_lower, numbers, rating_filter, status_filter) ==
  LET contacts_match == _match_contacts(message_lower)
      list_contacts == AnyIn({"list contact", "show contact", "all contact", "my contact", "contacts list"},
                             message_lower)
      assign_match == Search(message_lower, << Lit("assigned to ") >>, WordGroup, FALSE, << >>)
      note_match == Search(message_lower, << Alt(<< "about", "for", "with" >>), WS1, Opt(<< One("quote") >>) >>,
                           << Many1("nq") >>, FALSE, << Opt(<< One("quote") >>) >>)
      week_num_match == Search(message_lower, << Alt(<< "week", "wk", "w" >>), WS0 >>,
                               << One("d"), Opt(<< One("d") >>) >>, FALSE, << >>)
      find_match == Search(message_lower,
                           << Alt(<< "search", "find" >>), WS1, Opt(<< Lit("for"), WS1 >>),
                              Opt(<< Alt(<< "store", "stores" >>), WS1, Lit("with"), WS1 >>),
                              Opt(<< One("quote") >>) >>,
                           << Many1("nq") >>, FALSE, << Opt(<< One("quote") >>) >>)
  IN
  IF \/ contacts_match.found \/ list_contacts \/ In("contact", message_lower)
     \/ In("who do i call", message_lower) \/ In("phone number", message_lower)
     \/ In("reach out", message_lower)
    THEN Decision("get_contacts", [search_term |-> _extract_contact_term(message_lower, contacts_match)])
  ELSE IF In("mentee", message_lower) \/ In("circle", message_lower)
    THEN Decision("get_mentees", [store_nbr |-> FirstNumber(numbers)])
  ELSE IF In("enabler", message_lower) \/ (In("tip", message_lower) /\ In("trick", message_lower))
    THEN Decision("get_enablers",
                  [status_filter |-> IF In("idea", message_lower) THEN Str("idea")
                                     ELSE IF In("slide", message_lower) THEN Str("slide_made")
                                     ELSE IF In("presented", message_lower) THEN Str("presented")
                                     ELSE None])
  ELSE IF In("task", message_lower) \/ In("todo", message_lower) \/ In("to-do", message_lower)
    THEN Decision("get_tasks",
                  [status_filter |-> IF In("stalled", message_lower) THEN Str("stalled") ELSE status_filter,
                   assigned_to |-> OptStr(assign_match.found, assign_match.g),
                   store_number |-> FirstNumber(numbers)])
  ELSE IF /\ In("note", message_lower)
          /\ (\/ In("my", message_lower) \/ In("user", message_lower) \/ In("personal", message_lower)
              \/ In("search note", message_lower))
          /\ ~In("market", message_lower)
    THEN Decision("get_user_notes", [search_query |-> OptStr(note_match.found, Strip(note_match.g))])
  ELSE IF In("champion", message_lower) \/ (In("team", message_lower) /\ ~In("contact", message_lower))
    THEN Decision("get_champions", NoArgs)
  ELSE IF In("gold star", message_lower) \/ In("goldstar", message_lower)
    THEN Decision("get_gold_stars",
                  [week_number |-> IF week_num_match.found THEN Num(ToInt(week_num_match.g)) ELSE None])
  ELSE IF In("issue", message_lower) \/ In("feedback", message_lower) \/ In("bug", message_lower)
    THEN Decision("get_issues",
                  [status_filter |-> status_filter,
                   type_filter |-> IF In("feedback", message_lower) THEN Str("feedback")
                                   ELSE IF In("issue", message_lower) \/ In("bug", message_lower) THEN Str("issue")
                                   ELSE None])
  ELSE IF /\ In("market", message_lower)
          /\ AnyIn({"status", "progress", "assigned", "completion", "outstanding", "open", "incomplete"},
                   message_lower)
    THEN Decision("get_market_note_status", [status_filter |-> status_filter])
  ELSE IF In("market", message_lower) /\ In("update", message_lower)
    THEN Decision("get_market_note_updates", NoArgs)
  ELSE IF In("summary", message_lower) \/ In("stats", message_lower) \/ In("overview", message_lower)
    THEN Decision("get_summary_stats", NoArgs)
  ELSE IF In("market", message_lower) /\ (In("insight", message_lower) \/ In("note", message_lower))
    THEN Decision("get_market_insights", NoArgs)
  ELSE IF In("compare", message_lower) /\ Len(numbers) > 0
    THEN Decision("compare_stores", [store_list |-> Str(JoinComma(numbers))])
  ELSE IF (In("trend", message_lower) \/ In("analysis", message_lower)) /\ Len(numbers) > 0
    THEN Decision("analyze_trends", [store_nbr |-> Str(numbers[1])])
  ELSE IF /\ In("search", message_lower) \/ In("find", message_lower)
          /\ find_match.found
          /\ Strip(find_match.g) \notin {"green", "yellow", "red", "visits", "visit", "store", "stores"}
    THEN Decision("search_notes", [keyword |-> Str(Strip(find_match.g))])
  ELSE IF Len(numbers) > 0
    THEN VisitSearch(numbers, message_lower, rating_filter)
  ELSE Decision("get_summary_stats", NoArgs)

\* the rules of route under ACTION ROUTING (NotRouted: none of them returns)
ActionRoute(message, message_lower, numbers, rating_filter, status_filter) ==
  LET store == FirstNumber(numbers)
      note_num_match == Search(message_lower,
                               << AltP(<< << Lit("gold"), WS0, Lit("star") >>, << Lit("star") >> >>),
                                  WS0, Opt(<< Lit("#") >>), WS0 >>,
                               << One("d") >>, FALSE, << >>)
      task_id_match == Search(message_lower, << Lit("task"), WS0, Opt(<< Lit("#") >>), WS0 >>,
                              << Many1("d") >>, FALSE, << >>)
      enabler_id_match == Search(message_lower, << Lit("enabler"), WS0, Opt(<< Lit("#") >>), WS0 >>,
                                 << Many1("d") >>, FALSE, << >>)
      task_status == IF AnyIn({"complete", "done", "finish"}, message_lower) THEN Str("completed")
                     ELSE status_filter
  IN
  IF /\ In("gold star", message_lower) \/ In("goldstar", message_lower)
     /\ AnyIn(CompletionWords, message_lower)
     /\ Truthy(store)
    THEN Decision("mark_gold_star_complete",
                  [store_nbr |-> store,
                   note_number |-> Num(IF note_num_match.found THEN ToInt(note_num_match.g) ELSE 1),
                   completed |-> Bool(~In("incomplete", message_lower) /\ ~In("undo", message_lower))])
  ELSE IF AnyIn({"add contact", "create contact", "new contact", "add a contact"}, message_lower)
    THEN Decision("create_contact",
                  [name |-> _extract_name(message),
                   title |-> _extract_field(message_lower,
                                            << "title", "role", "position", "as a", "as the", "is the", "is a" >>),
                   department |-> _extract_field(message_lower, << "department", "dept", "area" >>),
                   phone |-> _extract_phone(message),
                   email |-> _extract_email(message)])
  ELSE IF AnyIn({"delete contact", "remove contact"}, message_lower)
    THEN Decision("delete_contact", [name |-> _extract_name(message)])
  ELSE IF AnyIn({"create task", "add task", "new task", "create a task", "add a task"}, message_lower)
    THEN Decision("create_task",
                  [content |-> Str(_extract_task_content(message)),
                   store_number |-> store,
                   assigned_to |-> _extract_field(message_lower, << "assign to", "assigned to", "for" >>),
                   priority |-> Num(_extract_priority(message_lower))])
  ELSE IF In("task", message_lower) /\ AnyIn(CompletionWords, message_lower) /\ task_id_match.found
    THEN Decision("update_task_status",
                  [task_id |-> Num(ToInt(task_id_match.g)),
                   status |-> IF Truthy(task_status) THEN task_status ELSE Str("completed")])
  ELSE IF In("market", message_lower) /\ In("note", message_lower) /\ AnyIn(CompletionWords, message_lower)
    THEN Decision("get_market_note_status", [status_filter |-> None])
  ELSE IF In("market", message_lower) /\ In("note", message_lower) /\ In("assign", message_lower)
    THEN Decision("get_market_note_status", [status_filter |-> None])
  ELSE IF AnyIn({"add champion", "create champion", "new champion"}, message_lower)
    THEN Decision("create_champion",
                  [name |-> _extract_name(message),
                   responsibility |-> _extract_field(message_lower,
                                                     << "for", "over", "responsible for", "handles" >>)])
  ELSE IF AnyIn({"add mentee", "create mentee", "new mentee"}, message_lower)
    THEN Decision("create_mentee",
                  [name |-> _extract_name(message),
                   store_nbr |-> store,
                   position |-> _extract_field(message_lower, << "position", "role", "as a", "as the" >>)])
  ELSE IF /\ In("enabler", message_lower) /\ AnyIn(CompletionWords, message_lower)
          /\ enabler_id_match.found /\ Truthy(store)
    THEN Decision("mark_enabler_complete",
                  [enabler_id |-> Num(ToInt(enabler_id_match.g)), store_nbr |-> store])
  ELSE IF AnyIn({"log issue", "create issue", "report bug", "submit feedback", "log feedback"}, message_lower)
    THEN Decision("create_issue",
                  [issue_type |-> IF In("bug", message_lower) THEN Str("bug")
                                  ELSE IF In("feedback", message_lower) THEN Str("feedback")
                                  ELSE Str("feature"),
                   title |-> Str(_extract_task_content(message))])
  ELSE NotRouted

InsightDecision(name, message) ==
  Decision("log_associate_insight_by_name", [name |-> Str(name), insight |-> Str(message)])

\* a router that tests the insight triggers only on messages without a store number
route_NumbersFirst(message) ==
  LET message_lower == Lower(message)
      numbers == ExtractNumbers(message)
      rating_filter == _extract_rating(message_lower)
      status_filter == _extract_status(message_lower)
      insight == InsightName(message_lower)
      action == ActionRoute(message, message_lower, numbers, rating_filter, status_filter)
  IN IF insight.found /\ Len(numbers) = 0 THEN InsightDecision(insight.name, message)
     ELSE IF action # NotRouted THEN action
     ELSE QueryRoute(message, message_lower, numbers, rating_filter, status_filter)

\* a router whose query rules come before its action rules
route_QueryFirst(message) ==
  LET message_lower == Lower(message)
      numbers == ExtractNumbers(message)
      rating_filter == _extract_rating(message_lower)
      status_filter == _extract_status(message_lower)
      insight == InsightName(message_lower)
      action == ActionRoute(message, message_lower, numbers, rating_filter, status_filter)
      query == QueryRoute(message, message_lower, numbers, rating_filter, status_filter)
  IN IF insight.found THEN InsightDecision(insight.name, message)
     ELSE IF query.tool \notin {"get_summary_stats", "search_visits"} THEN query
     ELSE IF action # NotRouted THEN action
     ELSE query

\* route(message) -> (tool_name, kwargs)
route(message) ==
  LET message_lower == Lower(message)
      numbers == ExtractNumbers(message)
      rating_filter == _extract_rating(message_lower)
      status_filter == _extract_status(message_lower)
      insight == InsightName(message_lower)
      action == ActionRoute(message, message_lower, numbers, rating_filter, status_filter)
  IN IF insight.found THEN InsightDecision(insight.name, message)
     ELSE IF action # NotRouted THEN action
     ELSE QueryRoute(message, message_lower, numbers, rating_filter, status_filter)

(***************************************************************************)
(* The messages the router is run on: an opening, a subject and a tail,    *)
(* joined by single blanks.                                                *)
(***************************************************************************)
NumStores == 2

MaxNoteNumber == 4

StorePool == << "4455", "12345", "1234", "0042", "98765", "2508" >>

StoreNumbers == { StorePool[i] : i \in 1..NumStores }

DigitWord(n) == CharAt(DigitChars, n + 1)

Openings ==
  { "", "I talked to Sam about", "I spoke with Maria, she said", "she told me", "I talked to the",
    "Sam said that", "mark", "Mark", "show me", "who has", "add contact John Smith as a",
    "create task to check", "compare", "find", "undo" }

Subjects ==
  { "", "gold star", "task 42 done", "task done", "market note status", "market update",
    "enabler 5 complete", "mentee circle", "my notes about freezer", "team", "open issue", "summary",
    "market insight", "trend", "meat", "contact", "log feedback about slow loading",
    "add champion Sarah for ogp", "add mentee mike", "delete contact John", "last visit", "red visits",
    "todo list" }
  \cup { "gold star " \o DigitWord(n) \o " complete" : n \in 0..MaxNoteNumber }

Tails ==
  { "", "being green", "high priority" }
  \cup { "for store " \o st : st \in StoreNumbers }
  \cup { "at " \o st \o "?" : st \in StoreNumbers }

JoinParts(a, b, c) == JoinWords(SelectSeq(<< a, b, c >>, LAMBDA x : Len(x) > 0))

\* whole messages: the scenarios of the specification and messages that
\* speak of one visit and of several
ScenarioMessages ==
  { "show me store 1234's last visit", "who has meat at 2508", "who has meat?",
    "show me the last visit for store 4455, not the older visits",
    "most recent visit to 12345 and 4455 that was yellow",
    "stats and analysis of the latest visits at 4455", "compare the team trend for 4455 and 12345",
    "open market progress for 4455", "create task to check dairy medium priority" }

Messages ==
  ({ JoinParts(a, b, c) : a \in Openings, b \in Subjects, c \in Tails } \ { "" }) \cup ScenarioMessages

(***************************************************************************)
(* tools/db.py and tools/actions.py: the backing store and the action      *)
(* tools.  A tool call is one step: it validates, obtains a connection,    *)
(* runs its statements in one transaction and releases the connection.     *)
(***************************************************************************)
RECURSIVE ToStr(_)
\* str(n) of a natural number
ToStr(n) == IF n < 10 THEN DigitWord(n) ELSE ToStr(n \div 10) \o DigitWord(n % 10)

\* JSON values the tools return: an object and a list (of rows)
Dict(r) == [t |-> "dict", v |-> r]

List(rows) == [t |-> "list", v |-> rows]

\* str(x), as an f-string renders a value
Text(x) ==
  CASE x.t = "none" -> "None"
    [] x.t = "str" -> x.v
    [] x.t = "int" -> ToStr(x.v)
    [] x.t = "bool" -> IF x.v THEN "True" ELSE "False"

\* json.dumps(data, indent=2); the members of a non-empty object and of the
\* rows of a list are elided as ...
Dumps(data) ==
  CASE data.t = "list" ->
         IF Len(data.v) = 0 THEN "[]"
         ELSE "[\n  " \o Join(",\n  ", [i \in 1..Len(data.v) |-> "{...}"]) \o "\n]"
    [] data.t = "dict" -> IF DOMAIN data.v = {} THEN "{}" ELSE "{...}"

\* the ActionResult envelopes; a create or update adds the row it wrote under
\* the key that names it ("contact": dict(contact))
Success(message) == Dict([success |-> Bool(TRUE), message |-> Str(message)])

SuccessWith(message, key, row) == Dict([success |-> Bool(TRUE), message |-> Str(message)] @@ (key :> row))

Failure(error) == Dict([success |-> Bool(FALSE), error |-> Str(error)])

\* how a call ends: it returns a JSON value or an exception leaves it
Returned(result) == [kind |-> "returned", result |-> result]

Raised(exc) == [kind |-> "raised", exc |-> exc]

NotCalled == [kind |-> "none"]

\* datetime.now() / NOW()
Now == Str("now")

\* datetime.date: a date is held as its ISO string (date.isoformat()) and
\* compared by its proleptic Gregorian ordinal (date.toordinal())
ToOrdinal(y, m, d) ==
  365 * (y - 1) + (y - 1) \div 4 - (y - 1) \div 100 + (y - 1) \div 400
  + << 0, 31, 59, 90, 120, 151, 181, 212, 243, 273, 304, 334 >>[m]
  + (IF m > 2 /\ y % 4 = 0 /\ (y % 100 # 0 \/ y % 400 = 0) THEN 1 ELSE 0)
  + d

\* date.fromisoformat(iso).year
YearOf(iso) == ToInt(SubSeq(iso, 1, 4))

\* date.fromisoformat(iso).toordinal()
Ordinal(iso) == ToOrdinal(YearOf(iso), ToInt(SubSeq(iso, 6, 7)), ToInt(SubSeq(iso, 9, 10)))

\* date.fromordinal(o).isoformat()
IsoDate(o) ==
  LET y == CHOOSE y \in (o \div 366)..(o \div 365 + 1) : ToOrdinal(y, 1, 1) <= o /\ o < ToOrdinal(y + 1, 1, 1)
      m == CHOOSE m \in 1..12 : ToOrdinal(y, m, 1) <= o /\ (m = 12 \/ o < ToOrdinal(y, m + 1, 1))
      d == o - ToOrdinal(y, m, 1) + 1
      Two(n) == IF n < 10 THEN "0" \o ToStr(n) ELSE ToStr(n)
  IN  (IF y < 10 THEN "000" ELSE IF y < 100 THEN "00" ELSE IF y < 1000 THEN "0" ELSE "") \o ToStr(y)
      \o "-" \o Two(m) \o "-" \o Two(d)

\* date.weekday() of an ordinal: Monday is 0
Weekday(o) == (o + 6) % 7

\* tools/fiscal.py: the first Saturday on or after January 31st of a year
first_saturday(year) == ToOrdinal(year, 1, 31) + ((5 - Weekday(ToOrdinal(year, 1, 31))) % 7)

\* the fiscal week number of the week that starts on week_start_date
get_fiscal_week_number(week_start_date) ==
  ((Ordinal(week_start_date)
    - first_saturday(IF Ordinal(week_start_date) < ToOrdinal(YearOf(week_start_date), 1, 31)
                     THEN YearOf(week_start_date) - 1 ELSE YearOf(week_start_date))) \div 7) + 1

\* the Monday (as an ordinal) of a fiscal week, in the fiscal year of today
get_monday_from_fiscal_week(week_number, date_today) ==
  first_saturday(IF Ordinal(date_today) < ToOrdinal(YearOf(date_today), 1, 31) /\ week_number > 40
                 THEN YearOf(date_today) - 1 ELSE YearOf(date_today))
  + 7 * (week_number - 1) + 2

\* the rows the store holds when the service starts
SeedStore ==
  [gold_star_weeks |-> { [id |-> 1, week_start_date |-> "2026-10-31", notes |-> << "zone", "fresh", "price" >>] },
   gold_star_completions |-> {},
   contacts |-> { [id |-> 1, name |-> "Sam Hill", title |-> Str("Coach"), department |-> Str("Meat"),
                   phone |-> None, email |-> None] },
   tasks |-> { [id |-> 42, content |-> "check freezer", status |-> "new", priority |-> Num(3),
                assigned_to |-> None, store_number |-> None, completed_at |-> None] },
   market_note_completions |-> {},
   market_note_updates |-> {},
   champions |-> { [id |-> 1, name |-> "Sarah", responsibility |-> "ogp"] },
   mentees |-> { [id |-> 1, name |-> "Mike", store_nbr |-> Str("1234"), position |-> None] },
   enablers |-> { [id |-> 5, title |-> "endcaps", status |-> "idea"] },
   enabler_completions |-> {},
   issues |-> {},
   store_visits |-> { [id |-> 7, storeNbr |-> StorePool[1], calendar_date |-> "2026-10-28", rating |-> "Green"] },
   associate_insights |-> {},
   seq |-> [gold_star_weeks |-> 1, contacts |-> 1, tasks |-> 42, market_note_updates |-> 0, champions |-> 1, mentees |-> 1,
            enablers |-> 5, issues |-> 0, associate_insights |-> 0]]

\* a store without a gold star week, and one whose task has no priority
InitialStores ==
  { SeedStore,
    [SeedStore EXCEPT !.gold_star_weeks = {}],
    [SeedStore EXCEPT !.tasks = { [id |-> 42, content |-> "check freezer", status |-> "new", priority |-> None,
                                   assigned_to |-> None, store_number |-> None, completed_at |-> None] }] }

\* the next value of a table's id sequence
NextId(d, table) == d.seq[table] + 1

\* INSERT ... RETURNING id: the row gets the next id of the table's sequence
Insert(d, table, row) ==
  [d EXCEPT ![table] = @ \cup { row }, !.seq = [@ EXCEPT ![table] = @ + 1]]

\* a keyword argument, or the default of the parameter when it is not passed
Arg(kwargs, k, default) == IF k \in DOMAIN kwargs THEN kwargs[k] ELSE default

\* not x or not x.strip()
Blank(x) == ~Truthy(x) \/ Len(Strip(x.v)) = 0

\* get_db_connection under a fault scenario: a pooled connection, a direct one, or an exception
get_db_connection(pooled, scenario) ==
  IF pooled /\ scenario \notin {"getconn_fail", "connect_fail"} THEN "pool"
  ELSE IF scenario = "connect_fail" THEN "raise"
  ELSE "direct"

\* release_db_connection: connections that stay checked out of the pool afterwards
release_db_connection(pooled, conn, scenario) ==
  IF pooled /\ conn = "pool" /\ scenario = "putconn_fail" THEN 1 ELSE 0

\* the faults a call can meet
Scenarios == { "ok", "getconn_fail", "connect_fail", "stmt_fail", "rollback_fail", "putconn_fail" }

\* an INSERT that adds the row beside the one with the conflicting key
Upsert_InsertOnly(rows, same, row) == rows \cup { row }

\* rows of a table that satisfy a WHERE clause are given as sets; an UPSERT
\* (INSERT ... ON CONFLICT (key) DO UPDATE) replaces the row with the
\* conflicting key
Upsert(rows, same, row) == { r \in rows : ~same[r] } \cup { row }

\* ORDER BY week_start_date DESC LIMIT 1
CurrentWeek(d) ==
  CHOOSE w \in d.gold_star_weeks :
    \A x \in d.gold_star_weeks : Ordinal(x.week_start_date) <= Ordinal(w.week_start_date)

\* mark_gold_star_complete, lines 37-48: the week_id argument, or the id of
\* the week ORDER BY week_start_date DESC LIMIT 1 finds
WeekId(d, kwargs) ==
  IF Truthy(Arg(kwargs, "week_id", None)) THEN kwargs.week_id.v ELSE CurrentWeek(d).id

valid_statuses == { "new", "in_progress", "stalled", "completed" }

valid_types == { "feature", "bug", "feedback" }

\* note_number not in [1, 2, 3]
InvalidNoteNumber_Never(note_number) == FALSE

InvalidNoteNumber(note_number) == note_number \notin { Num(1), Num(2), Num(3) }

\* the validation each action tool makes before it asks for a connection:
\* the error it returns, "" when the arguments pass
Invalid(tool, kwargs) ==
  CASE tool = "mark_gold_star_complete" ->
         IF InvalidNoteNumber(kwargs.note_number) THEN "note_number must be 1, 2, or 3" ELSE ""
    [] tool \in { "create_contact", "create_mentee" } ->
         IF Blank(kwargs.name) THEN "Name is required" ELSE ""
    [] tool = "delete_contact" ->
         IF ~Truthy(Arg(kwargs, "contact_id", None)) /\ ~Truthy(Arg(kwargs, "name", None))
         THEN "Either contact_id or name is required" ELSE ""
    [] tool = "create_task" -> IF Blank(kwargs.content) THEN "Task content is required" ELSE ""
    [] tool \in { "update_task_status", "update_market_note_status" } ->
         IF Lower(kwargs.status.v) \in valid_statuses THEN ""
         ELSE "Invalid status. Must be one of: new, in_progress, stalled, completed"
    [] tool = "add_market_note_comment" -> IF Blank(kwargs.comment) THEN "Comment text is required" ELSE ""
    [] tool = "create_champion" ->
         IF Blank(kwargs.name) THEN "Name is required"
         ELSE IF Blank(kwargs.responsibility) THEN "Responsibility is required" ELSE ""
    [] tool = "delete_champion" ->
         IF ~Truthy(Arg(kwargs, "champion_id", None)) /\ ~Truthy(Arg(kwargs, "name", None))
         THEN "Either champion_id or name is required" ELSE ""
    [] tool = "delete_mentee" ->
         IF ~Truthy(Arg(kwargs, "mentee_id", None)) /\ ~Truthy(Arg(kwargs, "name", None))
         THEN "Either mentee_id or name is required" ELSE ""
    [] tool = "create_enabler" -> IF Blank(kwargs.title) THEN "Title is required" ELSE ""
    [] tool = "create_issue" ->
         IF Lower(kwargs.issue_type.v) \notin valid_types
         THEN "Invalid type. Must be one of: feature, bug, feedback"
         ELSE IF Blank(kwargs.title) THEN "Title is required" ELSE ""
    [] OTHER -> ""

\* what a tool's statements do to the store and what the tool then returns
Done(d, result) == [db |-> d, result |-> result]

\* INSERT ... RETURNING: the row is stored and returned in the envelope
Created(d, table, row, message, key) == Done(Insert(d, table, row), SuccessWith(message, key, row))

\* DELETE ... WHERE id = %s, or WHERE LOWER(name) = LOWER(%s) when no id is given
Selected(rows, id, name) ==
  IF Truthy(id) THEN { r \in rows : r.id = id.v } ELSE { r \in rows : Lower(r.name) = Lower(name.v) }

\* deleted = cursor.fetchone(): found with the name of a deleted row, or the not-found failure
Deleted(d, table, gone, found, missing) ==
  IF gone = {} THEN Done(d, Failure(missing))
  ELSE Done([d EXCEPT ![table] = @ \ gone], Success(found[CHOOSE r \in gone : TRUE]))

\* the market_note_completions row of a note, or the row an INSERT creates for it
\* (columns the INSERT does not name are left to the table's defaults: None)
NoteRow(d, visit_id, note_text) ==
  IF \E r \in d.market_note_completions : r.visit_id = visit_id /\ r.note_text = note_text
  THEN CHOOSE r \in d.market_note_completions : r.visit_id = visit_id /\ r.note_text = note_text
  ELSE [visit_id |-> visit_id, note_text |-> note_text, completed |-> None, status |-> None,
        assigned_to |-> None]

PutNote(d, row) ==
  [d EXCEPT !.market_note_completions =
     Upsert(@, [r \in @ |-> r.visit_id = row.visit_id /\ r.note_text = row.note_text], row)]

\* the statements of update_market_note_status, which mark_market_note_complete
\* calls with the status 'completed'
update_market_note_status_run(d, visit_id, note_text, status) ==
  Done(PutNote(d, [NoteRow(d, visit_id, note_text) EXCEPT !.completed = Bool(Lower(status) = "completed"),
                                                          !.status = Str(Lower(status))]),
       Success("Market note status updated to '" \o status \o "'"))

\* str.capitalize()
Capitalize(s) ==
  IF Len(s) = 0 THEN ""
  ELSE (IF CharAt(s, 1) \in LowerSet
          THEN CharAt(UpperChars, CHOOSE k \in 1..Len(LowerChars) : CharAt(LowerChars, k) = CharAt(s, 1))
          ELSE CharAt(s, 1))
       \o Lower(SubSeq(s, 2, Len(s)))

\* "marked complete" / "marked incomplete" of the completed flag (default True)
Marked(kwargs) == IF Truthy(Arg(kwargs, "completed", Bool(TRUE))) THEN "marked complete" ELSE "marked incomplete"

\* the statements of an action tool on arguments that passed its validation:
\* the store they leave and the envelope the tool returns after the commit
Run(tool, d, kwargs) ==
  CASE tool = "mark_gold_star_complete" ->
         IF ~Truthy(Arg(kwargs, "week_id", None)) /\ d.gold_star_weeks = {}
         THEN Done(d, Failure("No gold star week found"))
         ELSE Done([d EXCEPT !.gold_star_completions =
                       Upsert(@, [r \in @ |-> /\ r.week_id = WeekId(d, kwargs)
                                              /\ r.store_nbr = kwargs.store_nbr.v
                                              /\ r.note_number = kwargs.note_number.v],
                              [week_id |-> WeekId(d, kwargs), store_nbr |-> kwargs.store_nbr.v,
                               note_number |-> kwargs.note_number.v,
                               completed |-> Truthy(Arg(kwargs, "completed", Bool(TRUE))),
                               completed_at |-> IF Truthy(Arg(kwargs, "completed", Bool(TRUE))) THEN Now ELSE None])],
                   Success("Gold Star #" \o ToStr(kwargs.note_number.v) \o " " \o Marked(kwargs)
                           \o " for store " \o kwargs.store_nbr.v))
    [] tool = "save_gold_star_notes" ->
         IF d.gold_star_weeks = {} THEN Done(d, Failure("No gold star week found"))
         ELSE Done([d EXCEPT !.gold_star_weeks =
                       Upsert(@, [r \in @ |-> r.id = CurrentWeek(d).id],
                              [CurrentWeek(d) EXCEPT !.notes = << kwargs.note_1.v, kwargs.note_2.v, kwargs.note_3.v >>])],
                   Success("Gold star notes updated"))
    [] tool = "create_contact" ->
         Created(d, "contacts",
                 [id |-> NextId(d, "contacts"), name |-> Strip(kwargs.name.v), title |-> Arg(kwargs, "title", None),
                  department |-> Arg(kwargs, "department", None), phone |-> Arg(kwargs, "phone", None),
                  email |-> Arg(kwargs, "email", None)],
                 "Contact '" \o kwargs.name.v \o "' created successfully", "contact")
    [] tool = "delete_contact" ->
         Deleted(d, "contacts", Selected(d.contacts, Arg(kwargs, "contact_id", None), Arg(kwargs, "name", None)),
                 [r \in d.contacts |-> "Contact '" \o r.name \o "' deleted"], "Contact not found")
    [] tool = "create_task" ->
         Created(d, "tasks",
                 [id |-> NextId(d, "tasks"), content |-> Strip(kwargs.content.v), status |-> "new",
                  priority |-> Arg(kwargs, "priority", Num(0)), assigned_to |-> Arg(kwargs, "assigned_to", None),
                  store_number |-> Arg(kwargs, "store_number", None), completed_at |-> None],
                 "Task created: "
                 \o SubSeq(kwargs.content.v, 1, IF Len(kwargs.content.v) < 50 THEN Len(kwargs.content.v) ELSE 50)
                 \o "...", "task")
    [] tool = "update_task_status" ->
         IF \A r \in d.tasks : r.id # kwargs.task_id.v
         THEN Done(d, Failure("Task #" \o ToStr(kwargs.task_id.v) \o " not found"))
         ELSE Done([d EXCEPT !.tasks =
                       { IF r.id = kwargs.task_id.v
                         THEN [r EXCEPT !.status = Lower(kwargs.status.v),
                                        !.completed_at = IF Lower(kwargs.status.v) = "completed" THEN Now ELSE None]
                         ELSE r : r \in @ }],
                   SuccessWith("Task #" \o ToStr(kwargs.task_id.v) \o " status updated to '" \o kwargs.status.v \o "'",
                               "task",
                               [(CHOOSE r \in d.tasks : r.id = kwargs.task_id.v) EXCEPT !.status = Lower(kwargs.status.v)]))
    [] tool = "delete_task" ->
         Deleted(d, "tasks", { r \in d.tasks : r.id = kwargs.task_id.v },
                 [r \in d.tasks |-> "Task #" \o ToStr(kwargs.task_id.v) \o " deleted"],
                 "Task #" \o ToStr(kwargs.task_id.v) \o " not found")
    [] tool = "update_market_note_status" ->
         update_market_note_status_run(d, kwargs.visit_id.v, kwargs.note_text.v, kwargs.status.v)
    [] tool = "assign_market_note" ->
         Done(PutNote(d, [NoteRow(d, kwargs.visit_id.v, kwargs.note_text.v)
                            EXCEPT !.assigned_to = Str(kwargs.assigned_to.v)]),
              Success("Market note assigned to " \o kwargs.assigned_to.v))
    [] tool = "add_market_note_comment" ->
         Done(Insert(d, "market_note_updates",
                     [id |-> NextId(d, "market_note_updates"), visit_id |-> kwargs.visit_id.v,
                      note_text |-> kwargs.note_text.v, text |-> Strip(kwargs.comment.v)]),
              Success("Comment added to market note"))
    [] tool = "mark_market_note_complete" ->
         update_market_note_status_run(d, kwargs.visit_id.v, kwargs.note_text.v, "completed")
    [] tool = "create_champion" ->
         Created(d, "champions",
                 [id |-> NextId(d, "champions"), name |-> Strip(kwargs.name.v),
                  responsibility |-> Strip(kwargs.responsibility.v)],
                 "Champion '" \o kwargs.name.v \o "' created for " \o kwargs.responsibility.v, "champion")
    [] tool = "delete_champion" ->
         Deleted(d, "champions", Selected(d.champions, Arg(kwargs, "champion_id", None), Arg(kwargs, "name", None)),
                 [r \in d.champions |-> "Champion '" \o r.name \o "' deleted"], "Champion not found")
    [] tool = "create_mentee" ->
         Created(d, "mentees",
                 [id |-> NextId(d, "mentees"), name |-> Strip(kwargs.name.v),
                  store_nbr |-> Arg(kwargs, "store_nbr", None), position |-> Arg(kwargs, "position", None)],
                 "Mentee '" \o kwargs.name.v \o "' added to your circle", "mentee")
    [] tool = "delete_mentee" ->
         Deleted(d, "mentees", Selected(d.mentees, Arg(kwargs, "mentee_id", None), Arg(kwargs, "name", None)),
                 [r \in d.mentees |-> "Mentee '" \o r.name \o "' removed from your circle"], "Mentee not found")
    [] tool = "mark_enabler_complete" ->
         IF \A e \in d.enablers : e.id # kwargs.enabler_id.v
         THEN Done(d, Failure("Enabler #" \o ToStr(kwargs.enabler_id.v) \o " not found"))
         ELSE Done([d EXCEPT !.enabler_completions =
                       Upsert(@, [r \in @ |-> r.enabler_id = kwargs.enabler_id.v /\ r.store_nbr = kwargs.store_nbr.v],
                              [enabler_id |-> kwargs.enabler_id.v, store_nbr |-> kwargs.store_nbr.v,
                               completed |-> Truthy(Arg(kwargs, "completed", Bool(TRUE))),
                               completed_at |-> IF Truthy(Arg(kwargs, "completed", Bool(TRUE))) THEN Now ELSE None])],
                   Success("Enabler '" \o (CHOOSE e \in d.enablers : e.id = kwargs.enabler_id.v).title \o "' "
                           \o Marked(kwargs) \o " for store " \o kwargs.store_nbr.v))
    [] tool = "create_enabler" ->
         Created(d, "enablers", [id |-> NextId(d, "enablers"), title |-> Strip(kwargs.title.v), status |-> "idea"],
                 "Enabler '" \o kwargs.title.v \o "' created", "enabler")
    [] tool = "create_issue" ->
         Created(d, "issues",
                 [id |-> NextId(d, "issues"), type |-> Lower(kwargs.issue_type.v), title |-> Strip(kwargs.title.v),
                  status |-> "open"],
                 Capitalize(kwargs.issue_type.v) \o " '" \o kwargs.title.v \o "' logged", "issue")

\* tool_func(**kwargs): a required parameter that is not passed, or a keyword
\* the tool does not declare, is a TypeError
MissingArgs(tool, kwargs) ==
  \/ ToolParams(tool).required \ DOMAIN kwargs # {}
  \/ DOMAIN kwargs \ ToolParams(tool).all # {}

\* conn.commit(), then the tool returns its envelope
Committed(r) == [db |-> r.db, outcome |-> Returned(r.result)]

\* the body of an action tool after its validation, under a fault scenario:
\* the connection is obtained outside the try block, so a failure to connect
\* leaves the tool as an exception; a failing statement is rolled back and
\* reported in the envelope; a rollback that fails leaves the except block
Transaction(tool, d, kwargs, conn, scenario) ==
  IF conn = "raise" THEN [db |-> d, outcome |-> Raised("could not connect to server")]
  ELSE IF scenario = "stmt_fail"
    THEN [db |-> d, outcome |-> Returned(Failure("server closed the connection unexpectedly"))]
  ELSE IF scenario = "rollback_fail" THEN [db |-> d, outcome |-> Raised("connection already closed")]
  ELSE Committed(Run(tool, d, kwargs))

\* finally: release_db_connection(conn)
Released(t, held) == [db |-> t.db, outcome |-> t.outcome, held |-> held]

\* an action tool called with kwargs on the store d
ActionTool(tool, d, kwargs, pooled, scenario) ==
  IF MissingArgs(tool, kwargs)
    THEN [db |-> d, outcome |-> Raised(tool \o "() missing required positional argument"), held |-> 0]
  ELSE IF Invalid(tool, kwargs) # ""
    THEN [db |-> d, outcome |-> Returned(Failure(Invalid(tool, kwargs))), held |-> 0]
  ELSE Released(Transaction(tool, d, kwargs, get_db_connection(pooled, scenario), scenario),
                release_db_connection(pooled, get_db_connection(pooled, scenario), scenario))

(***************************************************************************)
(* The query tools (tools/visits.py, notes.py, team.py, tracking.py,       *)
(* summary.py, store_info.py).  A query reads the rows of the store; the   *)
(* tables the model holds no rows of (the note tables, notes, store_info)  *)
(* are empty, and a column the model does not hold is NULL in every row.   *)
(* The operators up to Like give the semantics of SQL's ORDER BY, LIMIT    *)
(* and LIKE.                                                               *)
(***************************************************************************)
Collation == " -" \o DigitChars \o LowerChars

Rank(c) ==
  IF InChars(LowerChar(c), Collation)
    THEN CHOOSE k \in 1..Len(Collation) : CharAt(Collation, k) = LowerChar(c)
    ELSE 0

\* a sorts before b
RECURSIVE StrBefore(_, _)
StrBefore(a, b) ==
  IF Len(b) = 0 THEN FALSE
  ELSE IF Len(a) = 0 THEN TRUE
  ELSE IF Rank(CharAt(a, 1)) # Rank(CharAt(b, 1)) THEN Rank(CharAt(a, 1)) < Rank(CharAt(b, 1))
  ELSE StrBefore(SubSeq(a, 2, Len(a)), SubSeq(b, 2, Len(b)))

\* the rows of S in the order before gives them
RECURSIVE OrderBy(_, _)
OrderBy(S, before) ==
  IF S = {} THEN << >>
  ELSE << CHOOSE x \in S : \A y \in S \ { x } : before[x, y] >>
       \o OrderBy(S \ { CHOOSE x \in S : \A y \in S \ { x } : before[x, y] }, before)

\* ORDER BY name
ByName(S) ==
  OrderBy(S, [x \in S, y \in S |-> StrBefore(x.name, y.name) \/ (~StrBefore(y.name, x.name) /\ x.id < y.id)])

\* ORDER BY key DESC, created_at DESC
ByKey(S, key) == OrderBy(S, [x \in S, y \in S |-> key[x] > key[y] \/ (key[x] = key[y] /\ x.id > y.id)])

\* LIMIT n
Take(rows, n) == SubSeq(rows, 1, IF n < Len(rows) THEN n ELSE Len(rows))

\* LOWER(column) LIKE LOWER('%text%')
Like(column, text) == column.t = "str" /\ In(Lower(text), Lower(column.v))

\* the names tools/team.py defines or imports at module level
team_defines ==
  { "json", "Optional", "RealDictCursor", "get_db_connection", "release_db_connection",
    "get_champions", "get_mentees", "_normalize_search_term", "get_contacts" }

\* the alias lists of retail_aliases
retail_aliases ==
  { { "meat", "meats", "butcher", "protein" },
    { "produce", "fruits", "vegetables", "fresh" },
    { "deli", "delicatessen", "prepared foods" },
    { "bakery", "bread", "baked goods" },
    { "dairy", "milk", "cheese", "refrigerated" },
    { "frozen", "freezer", "ice cream" },
    { "grocery", "center store", "dry grocery" },
    { "hba", "health", "beauty", "pharmacy", "otc" },
    { "gm", "general merchandise", "hardlines" },
    { "apparel", "clothing", "softlines", "fashion" },
    { "electronics", "wireless", "photo", "entertainment" },
    { "sporting", "sports", "outdoor", "fitness" },
    { "automotive", "auto", "tires", "tle" },
    { "garden", "lawn", "outdoor living", "seasonal" },
    { "pets", "pet", "animal" },
    { "baby", "infant", "kids" },
    { "toys", "toy", "games" },
    { "home", "housewares", "domestics", "furniture" },
    { "pharmacy", "rx", "pharmacist" },
    { "optical", "vision", "glasses" },
    { "acc", "auto care", "automotive" },
    { "ogp", "online grocery", "pickup", "delivery", "digital" },
    { "frontend", "front end", "cashier", "self checkout", "sco" },
    { "claims", "receiving", "backroom" },
    { "inventory", "inv", "counts", "on hand" },
    { "fresh", "perishables", "produce", "meat", "deli", "bakery" },
    { "cap", "stocking", "freight" },
    { "ap", "asset protection", "security", "loss prevention" },
    { "people", "hr", "human resources", "personnel", "associate" },
    { "ops", "operations", "store ops" },
    { "coach", "team lead", "tl", "supervisor" },
    { "manager", "mgr", "asm", "store manager", "sm" } }

\* the search variations of a lowered, stripped term: the term, its singular
\* or plural, and every alias list one of whose aliases contains the term
Variations(term) ==
  { term }
  \cup (IF LitAt(term, Len(term) - 2, "ies") THEN { SubSeq(term, 1, Len(term) - 3) \o "y" }
        ELSE IF LitAt(term, Len(term) - 1, "es")
          THEN { SubSeq(term, 1, Len(term) - 2), SubSeq(term, 1, Len(term) - 1) }
        ELSE IF LitAt(term, Len(term), "s") /\ Len(term) > 2 THEN { SubSeq(term, 1, Len(term) - 1) }
        ELSE {})
  \cup (IF LitAt(term, Len(term), "s") THEN {} ELSE { term \o "s" })
  \cup UNION { aliases \in retail_aliases : \E alias \in aliases : In(term, alias) }

_normalize_search_term(term) == IF Len(term) = 0 THEN {} ELSE Variations(Strip(Lower(term)))

\* the note lists search_visits and get_visit_details add to a visit
NoNotes == [store_notes |-> << >>, market_notes |-> << >>, good_notes |-> << >>, top_3 |-> << >>]

\* SUM(CASE WHEN rating = ... THEN 1 ELSE 0 END): NULL over no rows
SumRating(visits, rating) ==
  IF visits = {} THEN None ELSE Num(Cardinality({ v \in visits : v.rating = rating }))

\* the visits of a store, or of every store, aggregated as get_summary_stats
\* and compare_stores aggregate them
Aggregated(visits) ==
  [total_visits |-> Num(Cardinality(visits)),
   green_count |-> SumRating(visits, "Green"),
   yellow_count |-> SumRating(visits, "Yellow"),
   red_count |-> SumRating(visits, "Red"),
   last_visit |-> IF visits = {} THEN None
                  ELSE Str((CHOOSE v \in visits :
                              \A w \in visits : Ordinal(w.calendar_date) <= Ordinal(v.calendar_date)).calendar_date)]

\* the data a query tool reads from the store d: the value json.loads gives
\* back from the tool's json.dumps
QueryData(tool, d, kwargs, date_today) ==
  CASE tool = "search_visits" ->
         List([i \in 1..Len(Take(ByKey({ v \in d.store_visits :
                                           /\ Str(v.storeNbr) = kwargs.store_nbr
                                           /\ Truthy(Arg(kwargs, "rating", None))
                                                => Lower(v.rating) = Lower(kwargs.rating.v) },
                                       [v \in d.store_visits |-> Ordinal(v.calendar_date)]),
                                 Arg(kwargs, "limit", Num(10)).v))
               |-> Take(ByKey({ v \in d.store_visits :
                                  /\ Str(v.storeNbr) = kwargs.store_nbr
                                  /\ Truthy(Arg(kwargs, "rating", None))
                                       => Lower(v.rating) = Lower(kwargs.rating.v) },
                              [v \in d.store_visits |-> Ordinal(v.calendar_date)]),
                        Arg(kwargs, "limit", Num(10)).v)[i] @@ NoNotes])
    [] tool = "get_visit_details" ->
         IF \A v \in d.store_visits : Num(v.id) # kwargs.visit_id
         THEN Dict([error |-> Str("Visit not found")])
         ELSE Dict((CHOOSE v \in d.store_visits : Num(v.id) = kwargs.visit_id) @@ NoNotes)
    [] tool = "analyze_trends" ->
         Dict([store_nbr |-> kwargs.store_nbr,
               period_days |-> Arg(kwargs, "days", Num(90)),
               visit_count |-> Num(Cardinality({ v \in d.store_visits :
                                                   /\ Str(v.storeNbr) = kwargs.store_nbr
                                                   /\ Ordinal(v.calendar_date)
                                                        > Ordinal(date_today) - Arg(kwargs, "days", Num(90)).v }))])
    [] tool = "compare_stores" ->
         List([i \in 1..Len(SelectSeq(SplitOn(kwargs.store_list.v, ","),
                                      LAMBDA s : \E v \in d.store_visits : v.storeNbr = Strip(s)))
               |-> [storeNbr |-> Strip(SelectSeq(SplitOn(kwargs.store_list.v, ","),
                                                 LAMBDA s : \E v \in d.store_visits : v.storeNbr = Strip(s))[i])]
                   @@ Aggregated({ v \in d.store_visits :
                                     v.storeNbr = Strip(SelectSeq(SplitOn(kwargs.store_list.v, ","),
                                                                  LAMBDA s : \E w \in d.store_visits :
                                                                               w.storeNbr = Strip(s))[i]) })])
    [] tool \in { "search_notes", "get_market_note_status", "get_user_notes" } -> List(<< >>)
    [] tool = "get_market_insights" ->
         Dict([period_days |-> Arg(kwargs, "days", Num(30)), total_market_notes |-> Num(0), notes |-> << >>])
    [] tool = "get_market_note_updates" ->
         List(ByKey({ u \in d.market_note_updates :
                        /\ \E v \in d.store_visits : v.id = u.visit_id
                        /\ Truthy(Arg(kwargs, "note_text", None)) => Like(Str(u.note_text), kwargs.note_text.v) },
                    [u \in d.market_note_updates |-> 0]))
    [] tool = "get_champions" -> List(ByName(d.champions))
    [] tool = "get_mentees" ->
         List(ByName({ m \in d.mentees :
                         Truthy(Arg(kwargs, "store_nbr", None)) => m.store_nbr = kwargs.store_nbr }))
    [] tool = "get_contacts" ->
         List(ByName({ c \in d.contacts :
                         /\ Truthy(Arg(kwargs, "search_term", None))
                              => \E variation \in _normalize_search_term(kwargs.search_term.v) :
                                   \/ Like(Str(c.name), variation)
                                   \/ Like(c.title, variation)
                                   \/ Like(c.department, variation)
                         /\ Truthy(Arg(kwargs, "department", None))
                              => \E variation \in _normalize_search_term(kwargs.department.v) :
                                   Like(c.department, variation) }))
    [] tool = "get_gold_stars" ->
         IF { w \in d.gold_star_weeks :
                IF Truthy(Arg(kwargs, "week_date", None)) THEN w.week_start_date = kwargs.week_date.v
                ELSE IF Truthy(Arg(kwargs, "week_number", None))
                  THEN Ordinal(w.week_start_date) = get_monday_from_fiscal_week(kwargs.week_number.v, date_today) - 2
                ELSE w = CurrentWeek(d) } = {}
         THEN Dict([error |-> Str(IF Truthy(Arg(kwargs, "week_number", None))
                                  THEN "No gold star data found for week " \o ToStr(kwargs.week_number.v)
                                  ELSE "No gold star week found")])
         ELSE LET week == CHOOSE w \in d.gold_star_weeks :
                            IF Truthy(Arg(kwargs, "week_date", None)) THEN w.week_start_date = kwargs.week_date.v
                            ELSE IF Truthy(Arg(kwargs, "week_number", None))
                              THEN Ordinal(w.week_start_date)
                                     = get_monday_from_fiscal_week(kwargs.week_number.v, date_today) - 2
                            ELSE w = CurrentWeek(d)
              IN Dict([week |-> week,
                       week_number |-> Num(get_fiscal_week_number(week.week_start_date)),
                       notes |-> week.notes,
                       completions |->
                         OrderBy({ c \in d.gold_star_completions : c.week_id = week.id },
                                 [x \in d.gold_star_completions, y \in d.gold_star_completions |->
                                    \/ StrBefore(x.store_nbr, y.store_nbr)
                                    \/ x.store_nbr = y.store_nbr /\ x.note_number < y.note_number])])
    [] tool = "get_enablers" ->
         List([i \in 1..Len(ByKey({ e \in d.enablers :
                                      Truthy(Arg(kwargs, "status_filter", None))
                                        => Lower(e.status) = Lower(kwargs.status_filter.v) },
                                  [e \in d.enablers |-> 0]))
               |-> ByKey({ e \in d.enablers :
                             Truthy(Arg(kwargs, "status_filter", None))
                               => Lower(e.status) = Lower(kwargs.status_filter.v) },
                         [e \in d.enablers |-> 0])[i]
                   @@ [total_tracked |->
                         Cardinality({ c \in d.enabler_completions :
                                         c.enabler_id
                                           = ByKey({ e \in d.enablers :
                                                       Truthy(Arg(kwargs, "status_filter", None))
                                                         => Lower(e.status) = Lower(kwargs.status_filter.v) },
                                                   [e \in d.enablers |-> 0])[i].id })]])
    [] tool = "get_issues" ->
         List(Take(ByKey({ r \in d.issues :
                             /\ Truthy(Arg(kwargs, "status_filter", None))
                                  => Lower(r.status) = Lower(kwargs.status_filter.v)
                             /\ Truthy(Arg(kwargs, "type_filter", None))
                                  => Lower(r.type) = Lower(kwargs.type_filter.v) },
                         [r \in d.issues |-> 0]), 50))
    [] tool = "get_tasks" ->
         List(Take(ByKey({ r \in d.tasks :
                             /\ Truthy(Arg(kwargs, "status_filter", None))
                                  => Lower(r.status) = Lower(kwargs.status_filter.v)
                             /\ Truthy(Arg(kwargs, "assigned_to", None)) => Like(r.assigned_to, kwargs.assigned_to.v)
                             /\ Truthy(Arg(kwargs, "store_number", None)) => r.store_number = kwargs.store_number },
                         [r \in d.tasks |-> IF r.priority = None THEN 1000 ELSE r.priority.v]), 50))
    [] tool = "get_summary_stats" ->
         Dict(Aggregated(d.store_visits)
              @@ [unique_stores |-> Num(Cardinality({ v.storeNbr : v \in d.store_visits })),
                  first_visit |-> IF d.store_visits = {} THEN None
                                  ELSE Str((CHOOSE v \in d.store_visits :
                                              \A w \in d.store_visits :
                                                Ordinal(v.calendar_date) <= Ordinal(w.calendar_date)).calendar_date),
                  recent_visits_30d |-> Num(Cardinality({ v \in d.store_visits :
                                                            Ordinal(v.calendar_date) >= Ordinal(date_today) - 30 }))])
    [] tool = "get_store_information" ->
         Dict([message |-> Str(IF Truthy(Arg(kwargs, "store_number", None))
                               THEN "No store information found for store " \o Text(kwargs.store_number) \o "."
                               ELSE "No store info directory found.")])

\* the body of a query tool under a fault scenario: the connection is
\* obtained outside the try block; only get_contacts and
\* get_store_information catch a failing statement and report it as data
Queried(tool, d, kwargs, conn, scenario, date_today) ==
  IF conn = "raise" THEN Raised("could not connect to server")
  ELSE IF scenario \in { "stmt_fail", "rollback_fail" }
    THEN IF tool = "get_contacts" THEN Returned(Dict([error |-> Str("server closed the connection unexpectedly")]))
         ELSE IF tool = "get_store_information"
           THEN Returned(Dict([error |-> Str("Database error fetching store info: "
                                              \o "server closed the connection unexpectedly")]))
         ELSE Raised("server closed the connection unexpectedly")
  ELSE Returned(QueryData(tool, d, kwargs, date_today))

\* a query tool called with kwargs on the store d
QueryTool(tool, d, kwargs, pooled, scenario, date_today) ==
  IF MissingArgs(tool, kwargs)
    THEN [db |-> d, outcome |-> Raised(tool \o "() missing required positional argument"), held |-> 0]
  ELSE [db |-> d,
        outcome |-> Queried(tool, d, kwargs, get_db_connection(pooled, scenario), scenario, date_today),
        held |-> release_db_connection(pooled, get_db_connection(pooled, scenario), scenario)]

\* TOOL_FUNCTIONS[tool_name](**kwargs)
CallTool(tool, d, kwargs, pooled, scenario, date_today) ==
  IF tool \in ActionToolNames THEN ActionTool(tool, d, kwargs, pooled, scenario)
  ELSE QueryTool(tool, d, kwargs, pooled, scenario, date_today)

(***************************************************************************)
(* jax_agent.py: the template formatters.  A formatter returns its text or *)
(* an exception leaves it.  The check mark, the cross, the bullet and the  *)
(* paw of the source's texts are written [ok], [x], - and (paw), and the   *)
(* fence of a code block ~~~.                                              *)
(***************************************************************************)
\* prefix and the value when the value is truthy
IfSet(prefix, x) == IF Truthy(x) THEN prefix \o Text(x) ELSE ""

\* prefix and the non-empty parts joined by sep, when there are any
InfoLine(prefix, sep, parts) ==
  IF SelectSeq(parts, LAMBDA p : Len(p) > 0) = << >> THEN ""
  ELSE prefix \o Join(sep, SelectSeq(parts, LAMBDA p : Len(p) > 0))

\* the shape the list formatters share: a sentence for no rows, one for a
\* single row, a heading and a line per row for more; on an object that is
\* not empty data[0] or row.get raises
FormatList(data, none, Single(_), Heading(_), Line(_)) ==
  IF data.t = "dict"
    THEN IF DOMAIN data.v = {} THEN Returned(none)
         ELSE IF Cardinality(DOMAIN data.v) = 1 THEN Raised("0")
         ELSE Raised("'str' object has no attribute 'get'")
  ELSE IF Len(data.v) = 0 THEN Returned(none)
  ELSE IF Len(data.v) = 1 THEN Returned(Single(data.v[1]))
  ELSE Returned(Join("\n", << Heading(Len(data.v)) >> \o [i \in 1..Len(data.v) |-> Line(data.v[i])]))

_format_action_result(data) ==
  IF Truthy(Arg(data, "success", None))
  THEN "[ok] **Done!** " \o Text(Arg(data, "message", Str("Action completed successfully")))
       \o (CASE "contact" \in DOMAIN data ->
                  "\n\n**Contact added:**" \o "\n- Name: " \o data.contact.name
                  \o IfSet("\n- Title: ", data.contact.title) \o IfSet("\n- Department: ", data.contact.department)
                  \o IfSet("\n- Phone: ", data.contact.phone) \o IfSet("\n- Email: ", data.contact.email)
             [] "task" \in DOMAIN data ->
                  "\n\n**Task details:**" \o "\n- ID: #" \o ToStr(data.task.id)
                  \o "\n- Content: " \o data.task.content \o "\n- Status: " \o data.task.status
                  \o IfSet("\n- Assigned to: ", data.task.assigned_to) \o IfSet("\n- Store: ", data.task.store_number)
             [] "champion" \in DOMAIN data ->
                  "\n\n- **" \o data.champion.name \o "** - " \o data.champion.responsibility
             [] "mentee" \in DOMAIN data ->
                  "\n\n- **" \o data.mentee.name \o "**" \o IfSet(" - Store ", data.mentee.store_nbr)
                  \o IfSet(", ", data.mentee.position)
             [] "enabler" \in DOMAIN data -> "\n\n- **" \o data.enabler.title \o "** (" \o data.enabler.status \o ")"
             [] "issue" \in DOMAIN data ->
                  "\n\n- **" \o data.issue.title \o "** (#" \o ToStr(data.issue.id) \o ") - " \o data.issue.type
             [] OTHER -> "")
  ELSE "[x] **Action failed:** " \o Text(Arg(data, "error", Str("Unknown error")))

_format_summary_stats(data) ==
  IF data.t = "list" THEN Raised("'list' object has no attribute 'get'")
  ELSE Returned("**Store Visit Summary**\n\n- Total visits: " \o Text(Arg(data.v, "total_visits", Num(0)))
                \o "\n- Unique stores: " \o Text(Arg(data.v, "unique_stores", Num(0)))
                \o "\n- Date range: " \o Text(Arg(data.v, "first_visit", Str("N/A")))
                \o " to " \o Text(Arg(data.v, "last_visit", Str("N/A")))
                \o "\n\n**Ratings:**\n- Green: " \o Text(Arg(data.v, "green_count", Num(0)))
                \o "\n- Yellow: " \o Text(Arg(data.v, "yellow_count", Num(0)))
                \o "\n- Red: " \o Text(Arg(data.v, "red_count", Num(0)))
                \o "\n\nRecent activity (30d): " \o Text(Arg(data.v, "recent_visits_30d", Num(0))) \o " visits")

_format_champions(data) ==
  FormatList(data, "No champions found.",
             LAMBDA c : "**" \o c.name \o "** is the champion for " \o c.responsibility \o ".",
             LAMBDA n : "**" \o ToStr(n) \o " Champions:**\n",
             LAMBDA c : "- **" \o c.name \o "** - " \o c.responsibility)

_format_contacts(data) ==
  FormatList(data, "No contacts found matching that search.",
             LAMBDA c : "**" \o c.name \o "**" \o IfSet(" is a ", c.title) \o IfSet(" over ", c.department) \o "."
                        \o InfoLine("\n", " | ", << IfSet("Phone: ", c.phone), IfSet("Email: ", c.email) >>),
             LAMBDA n : "Found " \o ToStr(n) \o " contacts:\n",
             LAMBDA c : "- **" \o c.name \o "**" \o IfSet(" - ", c.title)
                        \o (IF Truthy(c.department) THEN " (" \o Text(c.department) \o ")" ELSE "")
                        \o InfoLine("\n  ", " | ", << IfSet("", c.phone), IfSet("", c.email) >>))

_format_mentees(data) ==
  FormatList(data, "No mentees found.",
             LAMBDA m : "**" \o m.name \o "** at Store " \o Text(m.store_nbr) \o " (" \o Text(m.position) \o ")",
             LAMBDA n : "**Mentee Circle (" \o ToStr(n) \o "):**\n",
             LAMBDA m : "- **" \o m.name \o "** - Store " \o Text(m.store_nbr) \o ", " \o Text(m.position))

_format_gold_stars(data) ==
  IF data.t = "list" THEN Raised("'list' object has no attribute 'get'")
  ELSE Returned(Join("\n", << "**Gold Stars - Week " \o Text(Arg(data.v, "week_number", Str("N/A"))) \o "**" >>
                           \o SelectSeq([i \in 1..Len(Arg(data.v, "notes", << >>))
                                           |-> IF Len(data.v.notes[i]) > 0
                                               THEN ToStr(i) \o ". " \o data.v.notes[i] ELSE ""],
                                        LAMBDA line : Len(line) > 0)))

priority_labels == << "Low", "Medium", "High", "Critical" >>

\* priority_labels[min(t.get('priority', 0), 3)]
PriorityLabel(t) == priority_labels[(IF t.priority.v < 3 THEN t.priority.v ELSE 3) + 1]

_format_tasks(data) ==
  IF data.t = "list" /\ \E i \in 1..Len(data.v) : data.v[i].priority = None
  THEN Raised("'<' not supported between instances of 'int' and 'NoneType'")
  ELSE FormatList(data, "No tasks found.",
                  LAMBDA t : "**[" \o PriorityLabel(t) \o "]** " \o t.content \o " - Status: " \o t.status
                             \o IfSet("\nAssigned to: ", t.assigned_to),
                  LAMBDA n : "**" \o ToStr(n) \o " Tasks:**\n",
                  LAMBDA t : "- **[" \o PriorityLabel(t) \o "]** " \o t.content \o " (" \o t.status \o ")"
                             \o InfoLine("\n  ", " | ", << IfSet("Assigned: ", t.assigned_to) >>))

_format_visits(data) ==
  FormatList(data, "No visits found.",
             LAMBDA v : "**Store " \o v.storeNbr \o "** on " \o v.calendar_date \o " - **" \o v.rating \o "**"
                        \o (IF Len(v.top_3) > 0 THEN "\nTop improvements: " \o Join(", ", Take(v.top_3, 3)) ELSE ""),
             LAMBDA n : "**" \o ToStr(n) \o " Recent Visits:**\n",
             LAMBDA v : "- **Store " \o v.storeNbr \o "** (" \o v.calendar_date \o ") - **" \o v.rating \o "**")

_format_store_info(data) ==
  FormatList(data, "No store information found.",
             LAMBDA s : "**Store " \o Text(s.store_number) \o "** (" \o Text(s.city) \o ", " \o Text(s.state) \o ")"
                        \o (IF Truthy(s.store_manager) /\ s.store_manager # Str("N/A")
                            THEN "\nManager: " \o Text(s.store_manager) ELSE "")
                        \o IfSet("\nVolume Tier: ", s.volume_tier) \o IfSet("\nComplex Tier: ", s.complex_tier),
             LAMBDA n : "**" \o ToStr(n) \o " Stores Found:**\n",
             LAMBDA s : "- **Store " \o Text(s.store_number) \o "** - Manager: " \o Text(s.store_manager)
                        \o IfSet(" | Vol: ", s.volume_tier))

_format_associate_insights(data) ==
  FormatList(data, "I don't have any insights logged for that associate.",
             LAMBDA ins : "**Insights for " \o ins.associate_name \o ":**\n\n- " \o ins.insight_text
                          \o " *(Logged on " \o SplitOn(ins.created_at, "T")[1] \o ")*"
                          \o IfSet(" [Store ", ins.store_number) \o (IF Truthy(ins.store_number) THEN "]" ELSE ""),
             LAMBDA n : "**Insights for " \o data.v[1].associate_name \o ":**\n",
             LAMBDA ins : "- " \o ins.insight_text \o " *(Logged on " \o SplitOn(ins.created_at, "T")[1] \o ")*"
                          \o IfSet(" [Store ", ins.store_number) \o (IF Truthy(ins.store_number) THEN "]" ELSE ""))

\* the template formatter of a tool's data
_format_fallback(tool_name, data) ==
  IF data.t = "dict" /\ "error" \in DOMAIN data.v THEN Returned("Error: " \o Text(data.v.error))
  ELSE IF data.t = "dict" /\ "success" \in DOMAIN data.v THEN Returned(_format_action_result(data.v))
  ELSE CASE tool_name = "get_summary_stats" -> _format_summary_stats(data)
         [] tool_name = "get_champions" -> _format_champions(data)
         [] tool_name = "get_contacts" -> _format_contacts(data)
         [] tool_name = "get_mentees" -> _format_mentees(data)
         [] tool_name = "get_gold_stars" -> _format_gold_stars(data)
         [] tool_name = "get_tasks" -> _format_tasks(data)
         [] tool_name = "search_visits" -> _format_visits(data)
         [] tool_name = "get_store_information" -> _format_store_info(data)
         [] tool_name = "get_associate_insights" -> _format_associate_insights(data)
         [] OTHER -> Returned("Here's what I found:\n\n~~~json\n" \o Dumps(data) \o "\n~~~")

(***************************************************************************)
(* jax_agent.py: JaxAIOrchestrator.  What process_message does with one    *)
(* message is a record: the store it leaves, the connections it left       *)
(* checked out, the route and the tool call of the fallback path, the      *)
(* reply it returns or the exception that leaves it, and the steps taken.  *)
(***************************************************************************)
\* no tool call
NoCall == [tool |-> "", kwargs |-> NoArgs]

\* {"response": ..., "source": ...}
Reply(response, source) == [response |-> response, source |-> source]

\* the steps taken for a message: how the agent run ended, the tool calls of
\* the agent and of the fallback path, the formatting attempts
NoSteps == [agent |-> "skipped", agent_tools |-> 0, tool_calls |-> 0, llm_formats |-> 0, template_formats |-> 0]

\* str.title()
RECURSIVE TitleFrom(_, _)
TitleFrom(s, i) ==
  IF i > Len(s) THEN ""
  ELSE (IF i > 1 /\ LowerChar(CharAt(s, i - 1)) \in LowerSet THEN LowerChar(CharAt(s, i)) ELSE Capitalize(CharAt(s, i)))
       \o TitleFrom(s, i + 1)

\* log_associate_insight(contact_id, insight): the insight is stored against the contact
log_associate_insight(d, contact_id, insight, pooled, scenario) ==
  IF get_db_connection(pooled, scenario) = "raise"
    THEN [db |-> d, outcome |-> Raised("could not connect to server"), held |-> 0]
  ELSE [db |-> Insert(d, "associate_insights",
                      [id |-> NextId(d, "associate_insights"), contact_id |-> contact_id, insight_text |-> insight]),
        outcome |-> Returned(Success("Insight logged")),
        held |-> release_db_connection(pooled, get_db_connection(pooled, scenario), scenario)]

\* lines 256-285: the contacts found (t is the get_contacts call); the first
\* is the one the insight is logged against (l is that call)
InsightLogged(name, insight, dec, t, l, steps) ==
  IF t.outcome.kind = "raised"
  THEN [db |-> t.db, held |-> t.held, decision |-> dec, lastCall |-> NoCall, outcome |-> t.outcome,
        reply |-> Returned(Reply("I had trouble searching your contacts: " \o t.outcome.exc, "error")),
        steps |-> [steps EXCEPT !.tool_calls = @ + 1]]
  ELSE IF t.outcome.result.t = "list" /\ Len(t.outcome.result.v) > 0
  THEN [db |-> l.db, held |-> t.held + l.held, decision |-> dec, lastCall |-> NoCall, outcome |-> l.outcome,
        reply |-> IF l.outcome.kind = "raised"
                  THEN Returned(Reply("I found " \o t.outcome.result.v[1].name
                                      \o " in your contacts but couldn't log the insight: " \o l.outcome.exc, "error"))
                  ELSE Returned(Reply("[ok] Got it! I've logged that **" \o t.outcome.result.v[1].name
                                      \o "** said:\n\n> " \o insight \o "\n\nThis will now appear in their profile "
                                      \o "under Recent Insights on the Contacts page.", "insight_logged")),
        steps |-> [steps EXCEPT !.tool_calls = @ + 2]]
  ELSE [db |-> t.db, held |-> t.held, decision |-> dec, lastCall |-> NoCall, outcome |-> t.outcome,
        reply |-> Returned(Reply("I don't have **" \o TitleFrom(name, 1) \o "** in your contacts yet. Before I can "
                                 \o "save this insight, I need a little more info:\n\n"
                                 \o "1. **Full name** (first and last)\n"
                                 \o "2. **Position / title** (e.g., Store Manager, Market Lead)\n"
                                 \o "3. **Store number**\n\n"
                                 \o "Once you give me those, I'll add them to your contacts and log this right away! "
                                 \o "(paw)", "insight_needs_contact")),
        steps |-> [steps EXCEPT !.tool_calls = @ + 1]]

\* the import of line 246 fails when tools.team lacks one of the names, and
\* the ImportError leaves process_message
_handle_insight_by_name(name, insight, dec, t, pooled, scenario, steps) ==
  IF ~({ "get_contacts", "log_associate_insight", "create_contact" } \subseteq team_defines)
  THEN [db |-> t.db, held |-> 0, decision |-> dec, lastCall |-> NoCall, outcome |-> NotCalled,
        reply |-> Raised("cannot import name 'log_associate_insight' from 'tools.team'"), steps |-> steps]
  ELSE InsightLogged(name, insight, dec, t,
                     IF t.outcome.kind = "returned" /\ t.outcome.result.t = "list" /\ Len(t.outcome.result.v) > 0
                     THEN log_associate_insight(t.db, t.outcome.result.v[1].id, insight, pooled, scenario)
                     ELSE t,
                     steps)

\* the exception of the tool leaves _fallback_response
Answered_ToolErrorEscapes(dec, t, llm_ok, llm, steps) ==
  [db |-> t.db, held |-> t.held, decision |-> dec,
   lastCall |-> [tool |-> dec.tool, kwargs |-> dec.kwargs], outcome |-> t.outcome,
   reply |-> IF t.outcome.kind = "raised" THEN t.outcome
             ELSE IF llm.kind = "returned" THEN Returned(Reply(llm.result, "gemini"))
             ELSE llm,
   steps |-> [steps EXCEPT !.tool_calls = @ + 1]]

\* lines 225-242: the tool has been called (t); its data is formatted by the
\* LLM when that is available and its completion (llm) returns, else by the
\* template formatter, whose exception nothing catches
Answered(dec, t, llm_ok, llm, steps) ==
  [db |-> t.db, held |-> t.held, decision |-> dec,
   lastCall |-> [tool |-> dec.tool, kwargs |-> dec.kwargs], outcome |-> t.outcome,
   reply |-> IF t.outcome.kind = "raised"
               THEN Returned(Reply("Error retrieving data: " \o t.outcome.exc, "error"))
             ELSE IF llm_ok /\ llm.kind = "returned" THEN Returned(Reply(llm.result, "gemini"))
             ELSE IF _format_fallback(dec.tool, t.outcome.result).kind = "raised"
               THEN _format_fallback(dec.tool, t.outcome.result)
             ELSE Returned(Reply(_format_fallback(dec.tool, t.outcome.result).result, "formatted_fallback")),
   steps |-> [steps EXCEPT !.tool_calls = @ + 1,
                           !.llm_formats = @ + IF t.outcome.kind = "returned" /\ llm_ok THEN 1 ELSE 0,
                           !.template_formats =
                             @ + IF t.outcome.kind = "returned" /\ ~(llm_ok /\ llm.kind = "returned") THEN 1 ELSE 0]]

_fallback_response(dec, d, pooled, llm_ok, scenario, llm, date_today, steps) ==
  IF dec.tool = "log_associate_insight_by_name"
  THEN _handle_insight_by_name(Arg(dec.kwargs, "name", Str("")).v, Arg(dec.kwargs, "insight", Str("")).v, dec,
                               IF "get_contacts" \in team_defines
                               THEN QueryTool("get_contacts", d, [search_term |-> Arg(dec.kwargs, "name", Str(""))],
                                              pooled, scenario, date_today)
                               ELSE [db |-> d, outcome |-> NotCalled, held |-> 0],
                               pooled, scenario, steps)
  ELSE IF dec.tool \notin TOOL_FUNCTIONS
  THEN [db |-> d, held |-> 0, decision |-> dec, lastCall |-> NoCall, outcome |-> NotCalled,
        reply |-> Returned(Reply("Sorry, I couldn't process that request.", "error")), steps |-> steps]
  ELSE Answered(dec, CallTool(dec.tool, d, dec.kwargs, pooled, scenario, date_today), llm_ok, llm, steps)

\* self.adk_agent.run(message): the agent may run the tool the message asks
\* for before it answers or raises
_invoke_adk_agent(dec, agent, d, pooled, scenario, date_today) ==
  IF agent.acted /\ dec.tool \in TOOL_FUNCTIONS
  THEN [db |-> CallTool(dec.tool, d, dec.kwargs, pooled, scenario, date_today).db,
        held |-> CallTool(dec.tool, d, dec.kwargs, pooled, scenario, date_today).held,
        tools |-> 1, ends |-> agent.ends]
  ELSE [db |-> d, held |-> 0, tools |-> 0, ends |-> agent.ends]

\* lines 193-199: the agent has run (a)
AgentTried(dec, a, pooled, llm_ok, scenario, llm, date_today) ==
  IF a.ends.kind = "returned"
  THEN [db |-> a.db, held |-> a.held, decision |-> NotRouted, lastCall |-> NoCall, outcome |-> NotCalled,
        reply |-> Returned(Reply(a.ends.result, "adk_agent")),
        steps |-> [NoSteps EXCEPT !.agent = "returned", !.agent_tools = a.tools]]
  ELSE [_fallback_response(dec, a.db, pooled, llm_ok, scenario, llm, date_today,
                           [NoSteps EXCEPT !.agent = "raised", !.agent_tools = a.tools])
          EXCEPT !.held = @ + a.held]

\* process_message(message), dec being what the router makes of the message
Processed(dec, agent_ok, agent, d, pooled, llm_ok, scenario, llm, date_today) ==
  IF agent_ok /\ llm_ok
  THEN AgentTried(dec, _invoke_adk_agent(dec, agent, d, pooled, scenario, date_today),
                  pooled, llm_ok, scenario, llm, date_today)
  ELSE _fallback_response(dec, d, pooled, llm_ok, scenario, llm, date_today, NoSteps)

\* route tabulated over the modelled messages
RouteTable == [m \in Messages |-> route(m)]

(***************************************************************************)
(* State.                                                                  *)
(***************************************************************************)
VARIABLES
  message,    \* the message handed to route / process_message
  decision,   \* the (tool_name, kwargs) route returned, NotRouted before
  db,         \* the tables of the backing store
  _db_pool,   \* tools.db._db_pool is set (TRUE) or None (FALSE)
  pool_out,   \* connections checked out of the pool and not put back
  calls,      \* tool calls made so far
  lastCall,   \* the tool and the arguments of the latest call
  outcome,    \* how the latest call ended
  manual_router,  \* the orchestrator's router: the route of each chat message
  adk_agent,      \* the orchestrator has an ADK agent (TRUE) or None (FALSE)
  llm_available,  \* what llm_provider.is_available() answers
  today,          \* date.today()
  reply,          \* what the latest process_message returned, or the exception that left it
  trace,          \* the steps the latest process_message took
  history,        \* the requests served (committed or failed) so far, oldest first
  sessions,       \* the tool calls in progress on connections of their own
  llm_provider,   \* the LLM provider object: its class and what it remembers
  reachable,      \* the LLM endpoint answers now
  _orchestrator   \* jax_agent._orchestrator: the instances constructed so far that it names, 0 for None

routeVars == << message, decision >>

toolVars == << db, _db_pool, pool_out, calls, lastCall, outcome >>

chatVars == << manual_router, adk_agent, llm_available, today, reply, trace >>

webVars == << history, sessions >>

procVars == << llm_provider, reachable, _orchestrator >>

vars == << routeVars, toolVars, chatVars, webVars, procVars >>

\* no provider has been created and no orchestrator requested
NoProcess ==
  /\ llm_provider = [class |-> "none"]
  /\ reachable = TRUE
  /\ _orchestrator = 0

\* no orchestrator has been constructed
NoChat ==
  /\ manual_router = << >>
  /\ adk_agent = FALSE
  /\ llm_available = FALSE
  /\ today = "2026-11-02"
  /\ reply = NotCalled
  /\ trace = NoSteps
  /\ history = << >>
  /\ sessions = << >>
  /\ NoProcess

\* the store and the connection pool before any tool call
InitTools ==
  /\ db = SeedStore
  /\ _db_pool = TRUE
  /\ pool_out = 0
  /\ calls = 0
  /\ lastCall = NoCall
  /\ outcome = NotCalled

(***************************************************************************)
(* The router alone: route is called once on each message.                 *)
(***************************************************************************)
InitRoute ==
  /\ message \in Messages
  /\ decision = NotRouted
  /\ InitTools
  /\ NoChat

RouteMessage ==
  /\ decision = NotRouted
  /\ decision' = RouteTable[message]
  /\ UNCHANGED << message, toolVars, chatVars, webVars, procVars >>

NextRoute == RouteMessage

SpecRoute == InitRoute /\ [][NextRoute]_vars

(***************************************************************************)
(* The action tools alone: up to MaxCalls calls, one after the other, on   *)
(* arguments that pass and that fail validation, under every fault.        *)
(***************************************************************************)
MaxCalls == 2

\* argument values: absent, empty and proper strings
Texts == { None, Str(""), Str("Ann Lee") }

\* names to delete by: absent, and one the store holds in another case
Lookups == { None, Str("sam hill") }

Statuses == { Str("completed"), Str("In_Progress"), Str("on_hold") }

IssueTypes == { Str("Bug"), Str("feature"), Str("question") }

TaskIds == { Num(42), Num(7) }

InitToolsAlone ==
  /\ message = ""
  /\ decision = NotRouted
  /\ db \in { SeedStore, [SeedStore EXCEPT !.gold_star_weeks = {}] }
  /\ _db_pool \in BOOLEAN
  /\ pool_out = 0
  /\ calls = 0
  /\ lastCall = NoCall
  /\ outcome = NotCalled
  /\ NoChat

\* the call has run: its effect on the store, its outcome and the connection it may have leaked
Effect(tool, kwargs, r) ==
  /\ calls' = calls + 1
  /\ lastCall' = [tool |-> tool, kwargs |-> kwargs]
  /\ db' = r.db
  /\ outcome' = r.outcome
  /\ pool_out' = pool_out + r.held
  /\ UNCHANGED << routeVars, _db_pool, chatVars, webVars, procVars >>

\* the tool is called with kwargs and meets one of the fault scenarios
Call(tool, kwargs) ==
  \E scenario \in Scenarios : Effect(tool, kwargs, ActionTool(tool, db, kwargs, _db_pool, scenario))

CanCall == calls < MaxCalls

mark_gold_star_complete ==
  /\ CanCall
  /\ \E note_number \in { 0, 2, MaxNoteNumber }, completed \in BOOLEAN :
       Call("mark_gold_star_complete",
            [store_nbr |-> Str(StorePool[1]), note_number |-> Num(note_number), completed |-> Bool(completed)])

save_gold_star_notes ==
  /\ CanCall
  /\ Call("save_gold_star_notes", [note_1 |-> Str("zone"), note_2 |-> Str("fresh"), note_3 |-> Str("safety")])

create_contact ==
  /\ CanCall
  /\ \E name \in Texts : Call("create_contact", [name |-> name])

delete_contact ==
  /\ CanCall
  /\ \/ \E name \in Lookups : Call("delete_contact", [name |-> name])
     \/ Call("delete_contact", [contact_id |-> Num(9)])

create_task ==
  /\ CanCall
  /\ \E content \in Texts : Call("create_task", [content |-> content, priority |-> Num(2)])

update_task_status ==
  /\ CanCall
  /\ \E task_id \in TaskIds, status \in Statuses :
       Call("update_task_status", [task_id |-> task_id, status |-> status])

delete_task ==
  /\ CanCall
  /\ \E task_id \in TaskIds : Call("delete_task", [task_id |-> task_id])

update_market_note_status ==
  /\ CanCall
  /\ \E status \in Statuses :
       Call("update_market_note_status", [visit_id |-> Num(7), note_text |-> Str("fix freezer"), status |-> status])

assign_market_note ==
  /\ CanCall
  /\ Call("assign_market_note", [visit_id |-> Num(7), note_text |-> Str("fix freezer"), assigned_to |-> Str("Ann")])

add_market_note_comment ==
  /\ CanCall
  /\ \E comment \in { None, Str("  "), Str("done today") } :
       Call("add_market_note_comment", [visit_id |-> Num(7), note_text |-> Str("fix freezer"), comment |-> comment])

mark_market_note_complete ==
  /\ CanCall
  /\ Call("mark_market_note_complete", [visit_id |-> Num(7), note_text |-> Str("fix freezer")])

create_champion ==
  /\ CanCall
  /\ \E name \in { None, Str("Ann Lee") }, responsibility \in { Str("  "), Str("meat") } :
       Call("create_champion", [name |-> name, responsibility |-> responsibility])

delete_champion ==
  /\ CanCall
  /\ \E name \in { None, Str("sarah") } : Call("delete_champion", [name |-> name])

create_mentee ==
  /\ CanCall
  /\ \E name \in { Str(""), Str("Ann Lee") } : Call("create_mentee", [name |-> name, store_nbr |-> Str(StorePool[1])])

delete_mentee ==
  /\ CanCall
  /\ \E name \in { None, Str("mike") } : Call("delete_mentee", [name |-> name])

mark_enabler_complete ==
  /\ CanCall
  /\ \E enabler_id \in { Num(5), Num(6) } :
       Call("mark_enabler_complete", [enabler_id |-> enabler_id, store_nbr |-> Str(StorePool[1])])

create_enabler ==
  /\ CanCall
  /\ \E title \in { None, Str("  "), Str("endcaps") } : Call("create_enabler", [title |-> title])

create_issue ==
  /\ CanCall
  /\ \E issue_type \in IssueTypes, title \in { None, Str("slow loading") } :
       Call("create_issue", [issue_type |-> issue_type, title |-> title])

NextTools ==
  \/ mark_gold_star_complete
  \/ save_gold_star_notes
  \/ create_contact
  \/ delete_contact
  \/ create_task
  \/ update_task_status
  \/ delete_task
  \/ update_market_note_status
  \/ assign_market_note
  \/ add_market_note_comment
  \/ mark_market_note_complete
  \/ create_champion
  \/ delete_champion
  \/ create_mentee
  \/ delete_mentee
  \/ mark_enabler_complete
  \/ create_enabler
  \/ create_issue

SpecTools == InitToolsAlone /\ [][NextTools]_vars

(***************************************************************************)
(* The orchestrator: up to MaxMessages messages are processed, one after   *)
(* the other, by an orchestrator with or without an agent and an LLM, on   *)
(* each of the initial stores and under every fault.                       *)
(***************************************************************************)
MaxMessages == 2

\* the messages sent to the chat
ChatMessages ==
  { "I talked to Sam about meat", "Mark gold star 2 complete for store " \o StorePool[1],
    "mark gold star " \o DigitWord(MaxNoteNumber) \o " complete for store " \o StorePool[1],
    "mark task 42 done", "mark task done", "add mentee mike for store " \o StorePool[1], "todo list", "who has meat", "who has meat at 2508",
    "summary",
    "gold star", "last visit for store " \o StorePool[1], "team", "market insight",
    "create task to check meat high priority", "create task to check dairy medium priority",
    "delete contact John" }

\* how a run of the agent ends, and whether it ran the message's tool before
AgentRuns ==
  { [acted |-> acted, ends |-> ends] :
      acted \in BOOLEAN, ends \in { Returned("Store 4455 was rated Green."), Raised("model overloaded") } }

\* how a completion of the LLM ends
LlmRuns == { Returned("Here is what I found for you."), Raised("LLM generation failed: quota exceeded") }

\* the day the messages are sent
Todays == { "2026-11-02" }

\* the faults a message's tool calls meet
ChatFaults == { "ok", "connect_fail", "stmt_fail" }

\* get_orchestrator(db_pool) has constructed the orchestrator with the pool of main.py
Init ==
  /\ manual_router = [m \in ChatMessages |-> RouteTable[m]]
  /\ message = ""
  /\ decision = NotRouted
  /\ db \in InitialStores
  /\ _db_pool = TRUE
  /\ pool_out = 0
  /\ calls = 0
  /\ lastCall = NoCall
  /\ outcome = NotCalled
  /\ adk_agent \in BOOLEAN
  /\ llm_available \in BOOLEAN
  /\ today \in Todays
  /\ reply = NotCalled
  /\ trace = NoSteps
  /\ history = << >>
  /\ sessions = << >>
  /\ NoProcess

\* process_message has run on m and ended as r
Replied(m, r) ==
  /\ calls' = calls + 1
  /\ message' = m
  /\ decision' = r.decision
  /\ db' = r.db
  /\ pool_out' = pool_out + r.held
  /\ lastCall' = r.lastCall
  /\ outcome' = r.outcome
  /\ reply' = r.reply
  /\ trace' = r.steps
  /\ UNCHANGED << _db_pool, manual_router, adk_agent, llm_available, today, webVars, procVars >>

CanChat == calls < MaxMessages

process_message ==
  /\ CanChat
  /\ \E m \in ChatMessages, scenario \in ChatFaults :
       \E agent \in IF adk_agent /\ llm_available THEN AgentRuns ELSE { CHOOSE a \in AgentRuns : TRUE } :
         \E llm \in IF llm_available THEN LlmRuns ELSE { CHOOSE l \in LlmRuns : TRUE } :
           Replied(m, Processed(manual_router[m], adk_agent, agent, db, _db_pool, llm_available, scenario, llm, today))

Next == process_message

Spec == Init /\ [][Next]_vars


(***************************************************************************)
(* Properties of the router.                                               *)
(***************************************************************************)
Routed == decision # NotRouted

\* C2 as stated: route returns a tool name of the registry, with an argument
\* mapping whose keys are declared parameters of the tool and cover its
\* required parameters.
C2_RouteTotalInRegistry ==
  Routed =>
    /\ decision.tool \in TOOL_FUNCTIONS
    /\ DOMAIN decision.kwargs \subseteq ToolParams(decision.tool).all
    /\ ToolParams(decision.tool).required \subseteq DOMAIN decision.kwargs

\* C2 amended: route returns either the pseudo-tool
\* log_associate_insight_by_name, which is not in the registry, with exactly
\* the arguments name and insight, or a tool name of the registry with an
\* argument mapping whose keys are declared parameters of the tool and cover
\* its required parameters.
C2_RouteTotal ==
  Routed =>
    IF decision.tool = "log_associate_insight_by_name"
      THEN DOMAIN decision.kwargs = {"name", "insight"}
      ELSE /\ decision.tool \in TOOL_FUNCTIONS
           /\ DOMAIN decision.kwargs \subseteq ToolParams(decision.tool).all
           /\ ToolParams(decision.tool).required \subseteq DOMAIN decision.kwargs

\* a registry tool was selected whose required parameter could not be extracted
C2_Witness ==
  /\ Routed
  /\ decision.tool = "create_mentee"
  /\ decision.kwargs.name = None
  /\ decision.kwargs.store_nbr # None

\* the captures of the trigger patterns that are not skip words
NamedTriggers(message_lower) ==
  LET ms == InsightMatches(message_lower)
  IN { Strip(ms[j].g) : j \in { k \in 1..Len(ms) : ms[k].found /\ Strip(ms[k].g) \notin skip_words } }

HasSignals(message_lower) ==
  \/ Len(ExtractNumbers(message_lower)) > 0
  \/ _extract_rating(message_lower) # None
  \/ AnyIn(CompletionWords \cup {"add contact", "create task", "compare", "find", "gold star", "team"},
           message_lower)

\* C3: a message in which a trigger pattern captures a person name is routed
\* to log_associate_insight_by_name with that name and the whole message as
\* the insight, whatever store numbers, rating words, action keywords or
\* query keywords it contains.
C3_InsightFirst ==
  (Routed /\ NamedTriggers(Lower(message)) # {}) =>
    /\ decision.tool = "log_associate_insight_by_name"
    /\ \E n \in NamedTriggers(Lower(message)) : decision.kwargs.name = Str(n)
    /\ decision.kwargs.insight = Str(message)

\* an insight message with a store number and a rating word was routed
C3_Witness ==
  /\ Routed
  /\ message = "I talked to Sam about gold star 2 complete for store 4455"
  /\ decision.tool = "log_associate_insight_by_name"
  /\ HasSignals(Lower(message))

GoldStarMessage(n, st) == "mark gold star " \o DigitWord(n) \o " complete for store " \o st

\* C4: 'mark gold star N complete for store S' with N in 1..3 routes to
\* mark_gold_star_complete(store_nbr = S, note_number = N, completed = true),
\* never to get_gold_stars.
C4_GoldStarAction ==
  \A n \in 1..3 : \A st \in StoreNumbers :
    (Routed /\ message = GoldStarMessage(n, st)) =>
      decision = Decision("mark_gold_star_complete",
                          [store_nbr |-> Str(st), note_number |-> Num(n), completed |-> Bool(TRUE)])

C4_Witness ==
  /\ Routed
  /\ message = GoldStarMessage(2, "4455")
  /\ decision.tool = "mark_gold_star_complete"

\* pronouns, articles and generic nouns: tokens that are not a person's name
NonNames ==
  { "she", "he", "they", "we", "it", "a", "an", "the", "my", "our", "his", "her", "their", "me", "us", "him",
    "them", "store" }

\* C22: a token captured by an insight trigger pattern that is a pronoun, an
\* article or a generic noun ('she told me ...', 'they said that ...',
\* 'I talked to the ...', 'store') is rejected: no message is routed to the
\* insight workflow on such a token.
C22_NonNamesRejected ==
  (Routed /\ decision.tool = "log_associate_insight_by_name") => decision.kwargs.name.v \notin NonNames

\* the keyword tests of the query rules of route and their tools, in the
\* order in which route evaluates them
QueryTests(message_lower, numbers) ==
  LET find_match == Search(message_lower,
                           << Alt(<< "search", "find" >>), WS1, Opt(<< Lit("for"), WS1 >>),
                              Opt(<< Alt(<< "store", "stores" >>), WS1, Lit("with"), WS1 >>),
                              Opt(<< One("quote") >>) >>,
                           << Many1("nq") >>, FALSE, << Opt(<< One("quote") >>) >>)
  IN << << "get_contacts",
           \/ _match_contacts(message_lower).found
           \/ AnyIn({"list contact", "show contact", "all contact", "my contact", "contacts list", "contact",
                     "who do i call", "phone number", "reach out"}, message_lower) >>,
        << "get_mentees", AnyIn({"mentee", "circle"}, message_lower) >>,
        << "get_enablers", In("enabler", message_lower) \/ (In("tip", message_lower) /\ In("trick", message_lower)) >>,
        << "get_tasks", AnyIn({"task", "todo", "to-do"}, message_lower) >>,
        << "get_user_notes",
           /\ In("note", message_lower)
           /\ AnyIn({"my", "user", "personal", "search note"}, message_lower)
           /\ ~In("market", message_lower) >>,
        << "get_champions", In("champion", message_lower) \/ (In("team", message_lower) /\ ~In("contact", message_lower)) >>,
        << "get_gold_stars", AnyIn({"gold star", "goldstar"}, message_lower) >>,
        << "get_issues", AnyIn({"issue", "feedback", "bug"}, message_lower) >>,
        << "get_market_note_status",
           /\ In("market", message_lower)
           /\ AnyIn({"status", "progress", "assigned", "completion", "outstanding", "open", "incomplete"},
                    message_lower) >>,
        << "get_market_note_updates", In("market", message_lower) /\ In("update", message_lower) >>,
        << "get_summary_stats", AnyIn({"summary", "stats", "overview"}, message_lower) >>,
        << "get_market_insights", In("market", message_lower) /\ AnyIn({"insight", "note"}, message_lower) >>,
        << "compare_stores", In("compare", message_lower) /\ Len(numbers) > 0 >>,
        << "analyze_trends", AnyIn({"trend", "analysis"}, message_lower) /\ Len(numbers) > 0 >>,
        << "search_notes",
           /\ AnyIn({"search", "find"}, message_lower)
           /\ find_match.found
           /\ Strip(find_match.g) \notin {"green", "yellow", "red", "visits", "visit", "store", "stores"} >>,
        << "search_visits", Len(numbers) > 0 >> >>

\* the positions of the query rules whose test the message satisfies
Satisfied(m) ==
  LET tests == QueryTests(Lower(m), ExtractNumbers(m))
  IN { i \in 1..Len(tests) : tests[i][2] }

\* neither an insight trigger nor an action rule returns for the message
QueryOnly(m) ==
  /\ ~InsightName(Lower(m)).found
  /\ ActionRoute(m, Lower(m), ExtractNumbers(m), _extract_rating(Lower(m)), _extract_status(Lower(m))) = NotRouted

\* the message reaches the store number lookup: a store number, no insight
\* trigger, no action rule and no earlier query rule
BareStoreNumber(m) == QueryOnly(m) /\ Satisfied(m) = {16}

\* a phrase 'last visit', 'most recent visit' or 'latest visit' in the singular
VisitPhrase(message_lower) ==
  Matches(message_lower, << WB, Alt(<< "last", "most recent", "latest" >>), WS1, Lit("visit"), WB >>)

\* C17 as stated: a message with a 4-5 digit number and no insight trigger,
\* action keyword or stronger query keyword routes to search_visits with the
\* first number as store_nbr, the extracted rating, and limit 1 exactly when
\* a singular 'last visit' / 'most recent visit' / 'latest visit' phrase
\* appears, 5 otherwise.
C17_LimitByPhrase ==
  (Routed /\ BareStoreNumber(message)) =>
    decision = Decision("search_visits",
                        [store_nbr |-> Str(ExtractNumbers(message)[1]),
                         limit |-> Num(IF VisitPhrase(Lower(message)) THEN 1 ELSE 5),
                         rating |-> _extract_rating(Lower(message))])

\* C17 amended: such a message routes to search_visits with the first number
\* as store_nbr, the extracted rating, and limit 1 exactly when a singular
\* 'last visit' / 'most recent visit' / 'latest visit' phrase appears and
\* the message contains 'visits' nowhere, 5 otherwise; 'show me store
\* 1234's last visit' routes to search_visits('1234', 1, null).
C17_StoreNumberLookup ==
  /\ (Routed /\ BareStoreNumber(message)) =>
       decision = Decision("search_visits",
                           [store_nbr |-> Str(ExtractNumbers(message)[1]),
                            limit |-> Num(IF VisitPhrase(Lower(message)) /\ ~In("visits", Lower(message))
                                            THEN 1 ELSE 5),
                            rating |-> _extract_rating(Lower(message))])
  /\ (Routed /\ message = "show me store 1234's last visit") =>
       decision = Decision("search_visits", [store_nbr |-> Str("1234"), limit |-> Num(1), rating |-> None])

\* a message with two store numbers, a rating word and a singular phrase
\* was routed to the lookup of its first store
C17_Witness ==
  /\ Routed
  /\ message = "most recent visit to 12345 and 4455 that was yellow"
  /\ BareStoreNumber(message)
  /\ decision.kwargs = [store_nbr |-> Str("12345"), limit |-> Num(1), rating |-> Str("Yellow")]

\* the tool of the first query rule in the fixed order whose test the message satisfies
FirstRuleTool(m) ==
  QueryTests(Lower(m), ExtractNumbers(m))[CHOOSE i \in Satisfied(m) : \A j \in Satisfied(m) : i <= j][1]

\* C20: a message that triggers no insight rule and no action rule is routed
\* to the tool of the first rule, in the fixed order contacts, mentees,
\* enablers, tasks, personal notes, champions, gold stars, issues/feedback,
\* market-note status, market-note updates, summary/overview, market
\* insights, compare, trend/analysis, keyword search, bare store-number
\* lookup, whose test it satisfies, however many later rules it satisfies
\* too; a message that satisfies none of them routes to get_summary_stats
\* with no arguments.
C20_FirstRuleWins ==
  (Routed /\ QueryOnly(message)) =>
    IF Satisfied(message) = {} THEN decision = Decision("get_summary_stats", NoArgs)
    ELSE decision.tool = FirstRuleTool(message)

\* a message that satisfies the rules of the champions, of compare, of the
\* trends and of the store number lookup was routed to get_champions
C20_Witness ==
  /\ Routed
  /\ QueryOnly(message)
  /\ {6, 13, 14, 16} \subseteq Satisfied(message)
  /\ \A i \in Satisfied(message) : i >= 6
  /\ decision.tool = "get_champions"

(***************************************************************************)
(* Properties of the action tools.                                         *)
(***************************************************************************)
\* an ActionResult envelope: a JSON object with a 'success' key
IsEnvelope(o) == o.kind = "returned" /\ o.result.t = "dict" /\ "success" \in DOMAIN o.result.v

\* C5: every action tool returns a success/failure envelope for every input
\* and every condition of the store (no connection, a failing statement, a
\* failing rollback); no exception crosses the tool's boundary.
C5_AlwaysEnvelope == lastCall.tool \in ActionToolNames => IsEnvelope(outcome)

\* None, "" or only blanks
MissingOrBlank(x) == x = None \/ (x.t = "str" /\ \A i \in 1..Len(x.v) : CharAt(x.v, i) = " ")

\* the argument has the name k and is missing or blank
BlankArg(call, tools, k) == call.tool \in tools /\ k \in DOMAIN call.kwargs /\ MissingOrBlank(call.kwargs[k])

\* the argument k names none of the allowed values, whatever its case
OutsideArg(call, tools, k, allowed) ==
  call.tool \in tools /\ k \in DOMAIN call.kwargs /\ Lower(call.kwargs[k].v) \notin allowed

\* the invalid arguments C6 lists
InvalidArgument(call) ==
  \/ call.tool = "mark_gold_star_complete" /\ call.kwargs.note_number.v \notin 1..3
  \/ OutsideArg(call, {"update_task_status", "update_market_note_status"}, "status",
                {"new", "in_progress", "stalled", "completed"})
  \/ OutsideArg(call, {"create_issue"}, "issue_type", {"feature", "bug", "feedback"})
  \/ BlankArg(call, {"create_contact", "create_champion", "create_mentee"}, "name")
  \/ BlankArg(call, {"create_task"}, "content")
  \/ BlankArg(call, {"create_enabler", "create_issue"}, "title")
  \/ BlankArg(call, {"create_champion"}, "responsibility")
  \/ BlankArg(call, {"add_market_note_comment"}, "comment")

\* success = false with an error reason
IsRejection(o) ==
  /\ IsEnvelope(o)
  /\ o.result.v.success = Bool(FALSE)
  /\ "error" \in DOMAIN o.result.v
  /\ Len(o.result.v.error.v) > 0

\* C6: an action tool called with an invalid argument returns success=false
\* with an error reason, does not throw, and leaves the store unchanged: no
\* row is inserted, updated or deleted.
C6_InvalidArgumentRejected ==
  [][(calls' = calls + 1 /\ InvalidArgument(lastCall')) => (IsRejection(outcome') /\ db' = db)]_vars

\* an invalid call was rejected on a store that an earlier call had changed
C6_Witness ==
  /\ calls = MaxCalls
  /\ InvalidArgument(lastCall)
  /\ IsRejection(outcome)
  /\ db.contacts # SeedStore.contacts

(***************************************************************************)
(* Properties of process_message.                                          *)
(***************************************************************************)
\* process_message has run on a message
Processing == reply # NotCalled

\* the fallback path called the tool the router selected
ToolCalled == Processing /\ lastCall.tool \in TOOL_FUNCTIONS

\* C1: for every message process_message returns a reply with a non-empty
\* response string and a source tag; no agent, LLM, tool or formatter
\* failure and no step of the insight-by-name workflow lets an exception
\* escape to the caller.
C1_AlwaysReplies ==
  Processing =>
    /\ reply.kind = "returned"
    /\ Len(reply.result.response) > 0
    /\ Len(reply.result.source) > 0

\* C7: when the agent is configured, the LLM is available and the agent
\* raises, process_message catches the exception and answers through the
\* fallback path: a reply is returned, it is not tagged adk_agent, and the
\* router was consulted.
C7_AgentFailureFallsBack ==
  (Processing /\ trace.agent = "raised") =>
    /\ reply.kind = "returned"
    /\ reply.result.source # "adk_agent"
    /\ decision # NotRouted

\* C8: in the fallback path, when the selected tool raises, the reply has
\* the source error and a text that includes the exception message, and
\* neither the LLM nor the template formatter is tried.
C8_ToolErrorReply ==
  (ToolCalled /\ outcome.kind = "raised") =>
    /\ reply.kind = "returned"
    /\ reply.result.source = "error"
    /\ In(outcome.exc, reply.result.response)
    /\ trace.llm_formats = 0
    /\ trace.template_formats = 0

\* a tool raised in the fallback path of an orchestrator whose LLM is
\* available, after the agent had raised too
C8_Witness ==
  /\ ToolCalled
  /\ outcome.kind = "raised"
  /\ llm_available
  /\ trace.agent = "raised"
  /\ reply.kind = "returned"
  /\ reply.result.response = "Error retrieving data: could not connect to server"

\* C9: in the fallback path, when the LLM is available but its completion
\* raises, the reply is the template formatter's, tagged formatted_fallback,
\* made from the one tool call of the message.
C9_LlmFailureFallsToTemplate ==
  (ToolCalled /\ trace.llm_formats = 1 /\ trace.template_formats = 1) =>
    /\ reply.kind = "returned"
    /\ reply.result.source = "formatted_fallback"
    /\ trace.tool_calls = 1

\* C10: when the template formatter throws on a tool's result, the reply is
\* tagged raw_data and no exception reaches the caller of process_message.
C10_RawDataOnFormatterFailure ==
  (ToolCalled /\ trace.template_formats = 1 /\ _format_fallback(lastCall.tool, outcome.result).kind = "raised") =>
    /\ reply.kind = "returned"
    /\ reply.result.source = "raw_data"

(***************************************************************************)
(* The gold star weeks: the tool mark_gold_star_complete and the HTTP      *)
(* handlers of main.py that read and write the same tables, called one     *)
(* after the other.  history keeps the requests in the order served.       *)
(***************************************************************************)
\* main.py get_current_week_start: the Saturday on or before today, as an ordinal
get_current_week_start(date_today) == Ordinal(date_today) - ((Weekday(Ordinal(date_today)) + 2) % 7)

\* main.py get_fiscal_week_number: weeks counted from January 31st itself
main_get_fiscal_week_number(week_start_date) ==
  ((Ordinal(week_start_date)
    - ToOrdinal(IF Ordinal(week_start_date) < ToOrdinal(YearOf(week_start_date), 1, 31)
                THEN YearOf(week_start_date) - 1 ELSE YearOf(week_start_date), 1, 31)) \div 7) + 1

\* SELECT ... FROM gold_star_weeks WHERE week_start_date = %s
WeeksStarting(d, week_start) == { w \in d.gold_star_weeks : w.week_start_date = week_start }

\* GET /api/gold-stars/current: the week at week_offset from the current one
\* is read, and created with empty notes when the store has no record of it
CurrentGoldStars(d, week_offset, date_today) ==
  LET week_start == IsoDate(get_current_week_start(date_today) + 7 * week_offset)
      created == [id |-> NextId(d, "gold_star_weeks"), week_start_date |-> week_start, notes |-> << "", "", "" >>]
      week_data == IF WeeksStarting(d, week_start) = {} THEN created
                   ELSE CHOOSE w \in WeeksStarting(d, week_start) : TRUE
  IN  [db |-> IF WeeksStarting(d, week_start) = {} THEN Insert(d, "gold_star_weeks", created) ELSE d,
       status |-> 200,
       body |-> Dict([week_id |-> Num(week_data.id),
                      week_number |-> Num(main_get_fiscal_week_number(week_start)),
                      week_start_date |-> Str(week_start),
                      week_offset |-> Num(week_offset),
                      is_current_week |-> Bool(week_offset = 0)])]

\* POST /api/gold-stars/toggle: the completion of a note by a store in the
\* week that starts on the current Saturday
ToggledCompletion(d, data, date_today) ==
  LET week_start == IsoDate(get_current_week_start(date_today))
      completed == Truthy(Arg(data, "completed", Bool(FALSE)))
  IN  IF ~Truthy(Arg(data, "store_nbr", None)) \/ ~Truthy(Arg(data, "note_number", None))
        THEN [db |-> d, status |-> 400, body |-> Dict([error |-> Str("store_nbr and note_number are required")])]
      ELSE IF WeeksStarting(d, week_start) = {}
        THEN [db |-> d, status |-> 404, body |-> Dict([error |-> Str("No gold star notes defined for this week")])]
      ELSE [db |-> [d EXCEPT !.gold_star_completions =
                      Upsert(@, [r \in @ |-> /\ r.week_id = (CHOOSE w \in WeeksStarting(d, week_start) : TRUE).id
                                             /\ r.store_nbr = data.store_nbr.v
                                             /\ r.note_number = data.note_number.v],
                             [week_id |-> (CHOOSE w \in WeeksStarting(d, week_start) : TRUE).id,
                              store_nbr |-> data.store_nbr.v, note_number |-> data.note_number.v,
                              completed |-> completed,
                              completed_at |-> IF completed THEN Now ELSE None])],
            status |-> 200,
            body |-> Dict([success |-> Bool(TRUE), message |-> Str("Completion status updated")])]

MaxRequests == 3

\* a Monday in the week the store has a record of, and the Monday after it
GoldStarDays == { "2026-11-02", "2026-11-09" }

WeekOffsets == { -1, 0, 1 }

InitGoldStars ==
  /\ message = ""
  /\ decision = NotRouted
  /\ db \in { SeedStore, [SeedStore EXCEPT !.gold_star_weeks = {}] }
  /\ _db_pool = TRUE
  /\ pool_out = 0
  /\ calls = 0
  /\ lastCall = NoCall
  /\ outcome = NotCalled
  /\ manual_router = << >>
  /\ adk_agent = FALSE
  /\ llm_available = FALSE
  /\ today \in GoldStarDays
  /\ reply = NotCalled
  /\ trace = NoSteps
  /\ history = << >>
  /\ sessions = << >>
  /\ NoProcess

\* the request op has been served on args; it left the store d and succeeded or not
Served(op, args, d, ok) ==
  /\ history' = Append(history, [op |-> op, args |-> args, ok |-> ok])
  /\ db' = d
  /\ UNCHANGED << routeVars, _db_pool, pool_out, calls, lastCall, outcome, chatVars, sessions, procVars >>

CanServe == Len(history) < MaxRequests

\* the tool returned its success envelope
Succeeded(o) == o.kind = "returned" /\ "success" \in DOMAIN o.result.v /\ o.result.v.success = Bool(TRUE)

\* the chat marks a gold star of a store: mark_gold_star_complete without week_id
MarkGoldStar ==
  /\ CanServe
  /\ \E note_number \in { 1, 2 }, completed \in BOOLEAN, scenario \in { "ok", "stmt_fail" } :
       LET kwargs == [store_nbr |-> Str(StorePool[1]), note_number |-> Num(note_number),
                      completed |-> Bool(completed)]
           r == ActionTool("mark_gold_star_complete", db, kwargs, _db_pool, scenario)
       IN  Served("mark_gold_star_complete", kwargs, r.db, Succeeded(r.outcome))

get_current_gold_stars ==
  /\ CanServe
  /\ \E week_offset \in WeekOffsets :
       Served("get_current_gold_stars", [week_offset |-> Num(week_offset)],
              CurrentGoldStars(db, week_offset, today).db, TRUE)

toggle_gold_star_completion ==
  /\ CanServe
  /\ \E note_number \in { 0, 1 }, completed \in BOOLEAN :
       LET data == [store_nbr |-> Str(StorePool[1]), note_number |-> Num(note_number), completed |-> Bool(completed)]
           r == ToggledCompletion(db, data, today)
       IN  Served("toggle_gold_star_completion", data, r.db, r.status = 200)

NextGoldStars ==
  \/ MarkGoldStar
  \/ get_current_gold_stars
  \/ toggle_gold_star_completion

SpecGoldStars == InitGoldStars /\ [][NextGoldStars]_vars

\* the completion records of the (week, store, note) a mark call wrote to
RecordsOf(call) ==
  { r \in db.gold_star_completions : /\ r.week_id = WeekId(db, call.args)
                                      /\ r.store_nbr = call.args.store_nbr.v
                                      /\ r.note_number = call.args.note_number.v }

\* the i-th request from the end was a successful mark_gold_star_complete
\* with the given flag, on the store and note of the latest request
MarkedBefore(i, completed) ==
  /\ Len(history) > i
  /\ history[Len(history) - i].op = "mark_gold_star_complete"
  /\ history[Len(history) - i].ok
  /\ history[Len(history) - i].args.completed = Bool(completed)
  /\ history[Len(history) - i].args.store_nbr = history[Len(history)].args.store_nbr
  /\ history[Len(history) - i].args.note_number = history[Len(history)].args.note_number

\* C11: after mark_gold_star_complete(store, note, true) twice in a row the
\* store holds exactly one completion record for the (week, store, note),
\* completed with a completion time; after a following call with false it
\* still holds exactly one, not completed and without a completion time.
C11_IdempotentToggle ==
  /\ (MarkedBefore(0, TRUE) /\ MarkedBefore(1, TRUE)) =>
       /\ Cardinality(RecordsOf(history[Len(history)])) = 1
       /\ \A r \in RecordsOf(history[Len(history)]) : r.completed /\ r.completed_at # None
  /\ (MarkedBefore(0, FALSE) /\ MarkedBefore(1, TRUE) /\ MarkedBefore(2, TRUE)) =>
       /\ Cardinality(RecordsOf(history[Len(history)])) = 1
       /\ \A r \in RecordsOf(history[Len(history)]) : ~r.completed /\ r.completed_at = None

\* true, true, false have been called in a row on one note and one record is left
C11_Witness ==
  /\ MarkedBefore(0, FALSE)
  /\ MarkedBefore(1, TRUE)
  /\ MarkedBefore(2, TRUE)
  /\ Cardinality(db.gold_star_completions) = 1

\* the latest request was a successful mark_gold_star_complete
JustMarked ==
  /\ Len(history) > 0
  /\ history[Len(history)].op = "mark_gold_star_complete"
  /\ history[Len(history)].ok

\* C19: mark_gold_star_complete without week_id records the completion
\* against the week that starts on the Saturday on or before today,
\* whatever other week records the store holds.
C19_MarksCurrentWeek ==
  JustMarked =>
    \E w \in WeeksStarting(db, IsoDate(get_current_week_start(today))) :
      /\ WeekId(db, history[Len(history)].args) = w.id
      /\ \E r \in db.gold_star_completions :
           /\ r.week_id = w.id
           /\ r.store_nbr = history[Len(history)].args.store_nbr.v
           /\ r.note_number = history[Len(history)].args.note_number.v
           /\ r.completed = history[Len(history)].args.completed.v

(***************************************************************************)
(* Concurrent calls of the action tools that upsert.  Each call runs on a  *)
(* connection of its own: its INSERT ... ON CONFLICT DO UPDATE statement   *)
(* runs, then conn.commit().  PostgreSQL (READ COMMITTED) makes a          *)
(* statement that writes a key another transaction has written and not yet *)
(* committed wait for that transaction to end, and then applies it to the  *)
(* committed row.  history lists the calls in the order they ended.        *)
(***************************************************************************)
MaxSessions == 2

\* the table an upserting tool writes
UpsertTable(tool) ==
  CASE tool = "mark_gold_star_complete" -> "gold_star_completions"
    [] tool = "mark_enabler_complete" -> "enabler_completions"
    [] tool \in { "update_market_note_status", "assign_market_note" } -> "market_note_completions"

\* the conflict target of the tool's ON CONFLICT clause, for the call's arguments
ConflictKey(tool, d, kwargs) ==
  CASE tool = "mark_gold_star_complete" ->
         << "gold_star_completions", WeekId(d, kwargs), kwargs.store_nbr.v, kwargs.note_number.v >>
    [] tool = "mark_enabler_complete" -> << "enabler_completions", kwargs.enabler_id.v, kwargs.store_nbr.v >>
    [] tool \in { "update_market_note_status", "assign_market_note" } ->
         << "market_note_completions", kwargs.visit_id.v, kwargs.note_text.v >>

\* the conflict target of a stored row
RowKey(table, r) ==
  CASE table = "gold_star_completions" -> << table, r.week_id, r.store_nbr, r.note_number >>
    [] table = "enabler_completions" -> << table, r.enabler_id, r.store_nbr >>
    [] table = "market_note_completions" -> << table, r.visit_id, r.note_text >>

\* the calls made concurrently
UpsertCalls ==
  { [tool |-> "mark_gold_star_complete",
     kwargs |-> [store_nbr |-> Str(StorePool[1]), note_number |-> Num(2), completed |-> Bool(c)]] : c \in BOOLEAN }
  \cup { [tool |-> "update_market_note_status",
          kwargs |-> [visit_id |-> Num(7), note_text |-> Str("fix signage"), status |-> Str(s)]] :
          s \in { "completed", "In_Progress" } }
  \cup { [tool |-> "assign_market_note",
          kwargs |-> [visit_id |-> Num(7), note_text |-> Str("fix signage"), assigned_to |-> Str(a)]] :
          a \in { "Ann", "Bob" } }
  \cup { [tool |-> "mark_enabler_complete",
          kwargs |-> [enabler_id |-> Num(5), store_nbr |-> Str(StorePool[1]), completed |-> Bool(c)]] :
          c \in BOOLEAN }

Idle == [pc |-> "idle"]

InitSessions ==
  /\ message = ""
  /\ decision = NotRouted
  /\ InitTools
  /\ manual_router = << >>
  /\ adk_agent = FALSE
  /\ llm_available = FALSE
  /\ today = "2026-11-02"
  /\ reply = NotCalled
  /\ trace = NoSteps
  /\ history = << >>
  /\ sessions = [s \in 1..MaxSessions |-> Idle]
  /\ NoProcess

\* what stays as it is while the sessions run
SessionFrame == UNCHANGED << routeVars, _db_pool, pool_out, calls, lastCall, outcome, chatVars, procVars >>

\* no statement ever waits for another transaction
Blocked_Never(s) == FALSE

\* another transaction has written the key of s and has not ended
Blocked(s) ==
  \E o \in DOMAIN sessions \ { s } :
    /\ sessions[o].pc = "written"
    /\ ConflictKey(sessions[o].tool, db, sessions[o].kwargs) = ConflictKey(sessions[s].tool, db, sessions[s].kwargs)

\* a caller starts a tool call: the arguments pass the validation and
\* get_db_connection() hands out a connection
BeginCall(s) ==
  /\ sessions[s].pc = "idle"
  /\ \E call \in UpsertCalls :
       sessions' = [sessions EXCEPT ![s] = [pc |-> "begun", tool |-> call.tool, kwargs |-> call.kwargs,
                                            began |-> Len(history)]]
  /\ UNCHANGED << db, history >>
  /\ SessionFrame

\* the statements of the call run in its transaction: the rows the upsert
\* replaces (gone) and the rows it writes, not yet visible to the others
ExecuteUpsert(s) ==
  /\ sessions[s].pc = "begun"
  /\ ~Blocked(s)
  /\ LET r == Run(sessions[s].tool, db, sessions[s].kwargs)
         table == UpsertTable(sessions[s].tool)
     IN  sessions' = [sessions EXCEPT ![s] = [pc |-> "written", tool |-> @.tool, kwargs |-> @.kwargs,
                                              began |-> @.began,
                                              gone |-> db[table] \ r.db[table],
                                              rows |-> r.db[table] \ db[table],
                                              result |-> r.result]]
  /\ UNCHANGED << db, history >>
  /\ SessionFrame

\* conn.commit(): the rows of the transaction become the stored rows, and
\* the call returns its envelope
CommitCall(s) ==
  /\ sessions[s].pc = "written"
  /\ db' = [db EXCEPT ![UpsertTable(sessions[s].tool)] = (@ \ sessions[s].gone) \cup sessions[s].rows]
  /\ history' = Append(history, [op |-> sessions[s].tool, args |-> sessions[s].kwargs,
                                 ok |-> Succeeded(Returned(sessions[s].result)), began |-> sessions[s].began])
  /\ sessions' = [sessions EXCEPT ![s] = [pc |-> "done"]]
  /\ SessionFrame

\* the statement or the commit fails: conn.rollback() drops the rows of the
\* transaction and the call returns a failure envelope
RollbackCall(s) ==
  /\ sessions[s].pc \in { "begun", "written" }
  /\ history' = Append(history, [op |-> sessions[s].tool, args |-> sessions[s].kwargs, ok |-> FALSE,
                                 began |-> sessions[s].began])
  /\ sessions' = [sessions EXCEPT ![s] = [pc |-> "done"]]
  /\ UNCHANGED db
  /\ SessionFrame

NextSessions ==
  \E s \in 1..MaxSessions :
    \/ BeginCall(s)
    \/ ExecuteUpsert(s)
    \/ CommitCall(s)
    \/ RollbackCall(s)

SpecSessions == InitSessions /\ [][NextSessions]_vars

\* the stored rows with the key the i-th call of history wrote
RowsOfCall(i) ==
  { r \in db[UpsertTable(history[i].op)] :
      RowKey(UpsertTable(history[i].op), r) = ConflictKey(history[i].op, db, history[i].args) }

\* the i-th call of history committed and no later committed call wrote the
\* same fields of the same key
LastWriter(i) ==
  /\ history[i].ok
  /\ \A j \in (i + 1)..Len(history) :
       ~ /\ history[j].ok
         /\ history[j].op = history[i].op
         /\ ConflictKey(history[j].op, db, history[j].args) = ConflictKey(history[i].op, db, history[i].args)

\* the row carries the values the call wrote
Carries(r, call) ==
  CASE call.op \in { "mark_gold_star_complete", "mark_enabler_complete" } ->
         /\ r.completed = Truthy(call.args.completed)
         /\ (r.completed_at = None) = ~Truthy(call.args.completed)
    [] call.op = "update_market_note_status" ->
         /\ r.status = Str(Lower(call.args.status.v))
         /\ r.completed = Bool(Lower(call.args.status.v) = "completed")
    [] call.op = "assign_market_note" -> r.assigned_to = call.args.assigned_to

\* C12: under every interleaving of concurrent upserting calls the store
\* holds exactly one record for a key that a committed call wrote, and the
\* record carries, for each field, the values of the last committed call
\* that writes it, so that a status update and an assignment made
\* concurrently on one market note are both reflected.
C12_NoLostUpdate ==
  \A i \in 1..Len(history) :
    /\ history[i].ok => Cardinality(RowsOfCall(i)) = 1
    /\ LastWriter(i) => \A r \in RowsOfCall(i) : Carries(r, history[i])

\* a status update and an assignment of one market note ran concurrently
\* (the later began before the earlier committed) and the row shows both
C12_Witness ==
  \E i, j \in 1..Len(history) :
    /\ i < j
    /\ history[i].ok /\ history[j].ok
    /\ { history[i].op, history[j].op } = { "update_market_note_status", "assign_market_note" }
    /\ history[j].began < i
    /\ \E r \in db.market_note_completions :
         r.status # None /\ r.assigned_to # None /\ Cardinality(db.market_note_completions) = 1

(***************************************************************************)
(* The insight workflow of process_message.                                *)
(***************************************************************************)
\* the insights the store holds with the text of the latest message
InsightsOfMessage == { i \in db.associate_insights : i.insight_text = message }

\* C13: in the insight workflow a reply is returned; when the contact search
\* finds the person exactly one insight with the message text is logged
\* against that contact and the reply confirms it, naming the contact; when
\* it finds nobody no insight is written and the reply asks for the person's
\* full name, title and store number.  (A search that fails is answered
\* with an error reply.)
C13_InsightWorkflow ==
  (Processing /\ decision.tool = "log_associate_insight_by_name") =>
    /\ reply.kind = "returned"
    /\ reply.result.source \in { "insight_logged", "insight_needs_contact", "error" }
    /\ reply.result.source = "insight_logged" =>
         /\ Cardinality(InsightsOfMessage) = 1
         /\ \A i \in InsightsOfMessage :
              \E c \in db.contacts : c.id = i.contact_id /\ In(c.name, reply.result.response)
    /\ reply.result.source = "insight_needs_contact" =>
         /\ InsightsOfMessage = {}
         /\ In("Full name", reply.result.response)
         /\ In("title", reply.result.response)
         /\ In("Store number", reply.result.response)

(***************************************************************************)
(* The priority of a task from the message that creates it to the list     *)
(* that shows it.                                                          *)
(***************************************************************************)
\* the labels of the priorities a message can state: 1, 2, 3
StatedLabels == << "Low", "Medium", "High" >>

\* the list of tasks has been rendered by the template formatter
TasksShown ==
  /\ message = "todo list"
  /\ lastCall.tool = "get_tasks"
  /\ trace.template_formats > 0
  /\ reply.kind = "returned"

\* task t is rendered with label l
ShownAs(t, l) == In("[" \o l \o "]** " \o t.content, reply.result.response)

\* C29: a task created through the router with low, medium or high priority
\* is stored with priority 1, 2 or 3 and rendered by the template task
\* formatter with the label Low, Medium or High; a task created without a
\* priority (0) is rendered without a priority label.
C29_PriorityRoundTrip ==
  TasksShown =>
    \A t \in db.tasks :
      (t.id > SeedStore.seq.tasks /\ t.priority # None) =>
        IF t.priority.v \in 1..3 THEN ShownAs(t, StatedLabels[t.priority.v])
        ELSE \A l \in { "Low", "Medium", "High", "Critical" } : ~ShownAs(t, l)

(***************************************************************************)
(* Actions whose identifier the message does not give.                     *)
(***************************************************************************)
\* C21: when a message expresses an action whose required identifier cannot
\* be extracted ('mark task done' without a task number), the action tool
\* (update_task_status) is the tool invoked, its invocation ends in a
\* failure envelope with a validation message, and the store is not
\* modified.
C21_MissingIdentifierRejected ==
  [][(message' = "mark task done" /\ lastCall'.tool \in TOOL_FUNCTIONS) =>
       /\ lastCall'.tool = "update_task_status"
       /\ IsRejection(outcome')
       /\ db' = db]_vars

\* C23: for one message tools are executed by at most one of the agent path
\* and the fallback path, so that a mutating action the message asks for is
\* applied at most once (one message creates at most one task), even when
\* the agent raises after it has worked on the message.
C23_OnePathPerMessage ==
  [][/\ ~(trace'.agent_tools > 0 /\ trace'.tool_calls > 0)
     /\ Cardinality(db'.tasks) <= Cardinality(db.tasks) + 1]_vars

(***************************************************************************)
(* The contacts query of the chat.                                         *)
(***************************************************************************)
\* the contacts of the store one of whose name, title or department contains
\* one of the terms
ContactsMatching(terms) ==
  List(ByName({ c \in db.contacts :
                  \E variation \in terms :
                    Like(Str(c.name), variation) \/ Like(c.title, variation) \/ Like(c.department, variation) }))

\* C18: 'who has meat at 2508' is routed to get_contacts with the search
\* term 'meat', the store number being ignored, and the contact search
\* returns every contact that matches one of the variants 'meat', 'meats',
\* 'butcher' and 'protein'.
C18_MeatContacts ==
  (/\ Processing /\ message = "who has meat at 2508"
   /\ lastCall.tool = "get_contacts" /\ outcome.kind = "returned" /\ outcome.result.t = "list") =>
    /\ lastCall.kwargs.search_term = Str("meat")
    /\ {"meat", "meats", "butcher", "protein"} \subseteq _normalize_search_term(lastCall.kwargs.search_term.v)
    /\ outcome.result = ContactsMatching({"meat", "meats", "butcher", "protein"})

(***************************************************************************)
(* The template formatter alone: _format_fallback is applied to the data   *)
(* shapes a tool's result can be handed over in.                           *)
(***************************************************************************)
MaxRows == 2

\* a row as the formatter of the tool reads it
SampleRow(tool) ==
  CASE tool = "get_champions" -> [id |-> 1, name |-> "Sarah", responsibility |-> "ogp"]
    [] tool = "get_contacts" -> [id |-> 1, name |-> "Sam Hill", title |-> Str("Coach"), department |-> Str("Meat"),
                                 phone |-> None, email |-> None]
    [] tool = "get_mentees" -> [id |-> 1, name |-> "Mike", store_nbr |-> Str("1234"), position |-> None]
    [] tool = "get_tasks" -> [id |-> 42, content |-> "check freezer", status |-> "new", priority |-> Num(3),
                              assigned_to |-> None, store_number |-> None, completed_at |-> None]
    [] tool = "search_visits" -> [id |-> 7, storeNbr |-> "1234", calendar_date |-> "2026-10-28", rating |-> "Green",
                                  top_3 |-> << >>]
    [] tool = "get_store_information" -> [store_number |-> Str("1234"), city |-> Str("Bend"), state |-> Str("OR"),
                                          store_manager |-> None, volume_tier |-> None, complex_tier |-> None]
    [] tool = "get_associate_insights" -> [associate_name |-> "Sam Hill", insight_text |-> "meat is short",
                                           created_at |-> "2026-10-28T09:00:00", store_number |-> None]
    [] OTHER -> [id |-> 1]

\* an empty list, a single-item list, longer lists, and the failure-shaped
\* action results
Shapes(tool) ==
  { List([i \in 1..n |-> SampleRow(tool)]) : n \in 0..MaxRows }
  \cup { Failure("note_number must be 1, 2, or 3"), Dict([success |-> Bool(FALSE)]) }

InitFormat ==
  /\ message = ""
  /\ decision = NotRouted
  /\ db = SeedStore
  /\ _db_pool = TRUE
  /\ pool_out = 0
  /\ calls = 0
  /\ \E tool \in TOOL_FUNCTIONS :
       /\ lastCall = [tool |-> tool, kwargs |-> NoArgs]
       /\ outcome \in { Returned(data) : data \in Shapes(tool) }
  /\ NoChat

\* jax_agent.py:240-242: the reply made of the template formatter's text
FormatFallback ==
  /\ reply = NotCalled
  /\ reply' = IF _format_fallback(lastCall.tool, outcome.result).kind = "raised"
              THEN _format_fallback(lastCall.tool, outcome.result)
              ELSE Returned(Reply(_format_fallback(lastCall.tool, outcome.result).result, "formatted_fallback"))
  /\ UNCHANGED << routeVars, toolVars, manual_router, adk_agent, llm_available, today, trace, webVars, procVars >>

NextFormat == FormatFallback

SpecFormat == InitFormat /\ [][NextFormat]_vars

\* C14: for every tool of the registry the template formatter, given an
\* empty list, a single-item list, a multi-item list or a failure-shaped
\* action result, does not raise and returns a non-empty string.
C14_FormatterTotal ==
  reply # NotCalled => (reply.kind = "returned" /\ reply.result.response # "")

\* the query tools route can select whose result is a list of rows
ListQueryTools ==
  { "get_contacts", "get_mentees", "get_enablers", "get_tasks", "get_user_notes", "get_champions", "get_issues",
    "get_market_note_status", "get_market_note_updates", "search_notes", "search_visits" }

\* C25: for every query tool the router can select the template formatter
\* renders an empty result as a 'no ... found' sentence: never an empty
\* string, never a dump of the empty list.
C25_EmptyResultSentence ==
  (reply # NotCalled /\ lastCall.tool \in ListQueryTools /\ outcome.result = List(<< >>)) =>
    /\ reply.kind = "returned"
    /\ reply.result.response # ""
    /\ In("no ", Lower(reply.result.response))
    /\ In("found", Lower(reply.result.response))
    /\ ~In("[]", reply.result.response)

(***************************************************************************)
(* The fiscal week functions alone.  history[1] holds a calendar date;     *)
(* the steps append its week number as each call site computes it, the     *)
(* Monday get_monday_from_fiscal_week returns for that week number, and    *)
(* the week number of that Monday.                                         *)
(***************************************************************************)
\* chatbot_agent.py get_fiscal_week_number: weeks counted from the first
\* Saturday on or after January 31st
chatbot_get_fiscal_week_number(week_start_date) ==
  LET year == YearOf(week_start_date)
      fiscal_year == IF Ordinal(week_start_date) < ToOrdinal(year, 1, 31) THEN year - 1 ELSE year
      start == ToOrdinal(fiscal_year, 1, 31)
  IN  ((Ordinal(week_start_date) - (start + ((5 - Weekday(start)) % 7))) \div 7) + 1

MaxDays == 14

FiscalYears == { 2025, 2026, 2027 }

\* the days around January 31st of each year, and days later in the year
FiscalDates ==
  { IsoDate(ToOrdinal(y, 1, 24) + k) : y \in FiscalYears, k \in 0..MaxDays }
  \cup { "2025-06-02", "2026-06-01", "2026-10-31", "2026-11-02" }

\* date.today() when the Monday of a week number is asked for
FiscalTodays == { "2025-03-03", "2026-11-02", "2027-01-12" }

InitFiscal ==
  /\ message = ""
  /\ decision = NotRouted
  /\ InitTools
  /\ manual_router = << >>
  /\ adk_agent = FALSE
  /\ llm_available = FALSE
  /\ today \in FiscalTodays
  /\ reply = NotCalled
  /\ trace = NoSteps
  /\ history \in { << [date |-> d] >> : d \in FiscalDates }
  /\ sessions = << >>
  /\ NoProcess

\* the step appends an entry to the chain of computed values
Computed(entry) ==
  /\ history' = Append(history, entry)
  /\ UNCHANGED << routeVars, toolVars, chatVars, sessions, procVars >>

\* get_fiscal_week_number(date) at the tool layer, the HTTP layer and the chatbot
FiscalWeekOfDate ==
  /\ Len(history) = 1
  /\ Computed([tools |-> get_fiscal_week_number(history[1].date),
               http |-> main_get_fiscal_week_number(history[1].date),
               chatbot |-> chatbot_get_fiscal_week_number(history[1].date)])

\* get_monday_from_fiscal_week(week_number) of the tool layer
MondayOfFiscalWeek ==
  /\ Len(history) = 2
  /\ Computed([monday |-> IsoDate(get_monday_from_fiscal_week(history[2].tools, today))])

\* get_fiscal_week_number(monday)
FiscalWeekOfMonday ==
  /\ Len(history) = 3
  /\ Computed([tools |-> get_fiscal_week_number(history[3].monday)])

NextFiscal ==
  \/ FiscalWeekOfDate
  \/ MondayOfFiscalWeek
  \/ FiscalWeekOfMonday

SpecFiscal == InitFiscal /\ [][NextFiscal]_vars

\* C15: fiscal week round trip: the week number of the Monday that
\* get_monday_from_fiscal_week returns for a date's week number is the
\* date's week number, and for a date that is a Monday the Monday returned
\* for its week number is the date itself.
C15_FiscalRoundTrip ==
  /\ Len(history) = 4 => history[4].tools = history[2].tools
  /\ (Len(history) >= 3 /\ Weekday(Ordinal(history[1].date)) = 0) => history[3].monday = history[1].date

\* C16: for every calendar date get_fiscal_week_number of the HTTP layer
\* (main.py) returns the week number that get_fiscal_week_number of the tool
\* layer (tools/fiscal.py) returns.
C16_SameWeekNumber ==
  Len(history) >= 2 => history[2].http = history[2].tools

\* C30: get_fiscal_week_number (tools/fiscal.py and chatbot_agent.py) returns
\* a week number between 1 and 53 for every calendar date, the dates from
\* January 31 up to the day before the first Saturday on or after it included.
C30_WeekInRange ==
  Len(history) >= 2 => history[2].tools \in 1..53 /\ history[2].chatbot \in 1..53

(***************************************************************************)
(* llm_provider.py: the provider create_provider returns and its           *)
(* is_available(), called again and again while the endpoint comes and     *)
(* goes.  history lists the answers with the state of the endpoint at the  *)
(* time of the call, the latest MaxChecks of them.                         *)
(***************************************************************************)
MaxChecks == 3

\* GeminiProvider.__init__ / _initialize: self.model is set (TRUE) or None
\* (FALSE) once and for all
GeminiProvider(model) == [class |-> "GeminiProvider", model |-> model]

\* OllamaProvider.__init__: self._available = None
OllamaProvider == [class |-> "OllamaProvider", _available |-> None]

\* create_provider(): the class JAXAI_LLM_PROVIDER names
create_provider == { GeminiProvider(model) : model \in BOOLEAN } \cup { OllamaProvider }

\* is_available(): the provider after the call and the answer
IsAvailable(provider, endpoint_up) ==
  IF provider.class = "GeminiProvider" THEN [provider |-> provider, answer |-> provider.model]
  ELSE IF provider._available # None THEN [provider |-> provider, answer |-> provider._available.v]
  ELSE [provider |-> [provider EXCEPT !._available = Bool(endpoint_up)], answer |-> endpoint_up]

InitProvider ==
  /\ message = ""
  /\ decision = NotRouted
  /\ InitTools
  /\ manual_router = << >>
  /\ adk_agent = FALSE
  /\ llm_available = FALSE
  /\ today = "2026-11-02"
  /\ reply = NotCalled
  /\ trace = NoSteps
  /\ history = << >>
  /\ sessions = << >>
  /\ llm_provider \in create_provider
  /\ reachable \in BOOLEAN
  /\ _orchestrator = 0

\* the latest MaxChecks entries of h
Latest(h) == IF Len(h) > MaxChecks THEN Tail(h) ELSE h

is_available ==
  /\ llm_provider' = IsAvailable(llm_provider, reachable).provider
  /\ llm_available' = IsAvailable(llm_provider, reachable).answer
  /\ history' = Latest(Append(history, [up |-> reachable, answer |-> IsAvailable(llm_provider, reachable).answer]))
  /\ UNCHANGED << routeVars, toolVars, manual_router, adk_agent, today, reply, trace, sessions, reachable,
                  _orchestrator >>

\* the endpoint goes down or comes back
EndpointChanges ==
  /\ reachable' = ~reachable
  /\ UNCHANGED << routeVars, toolVars, chatVars, webVars, llm_provider, _orchestrator >>

NextProvider ==
  \/ is_available
  \/ EndpointChanges

SpecProvider == InitProvider /\ [][NextProvider]_vars

\* is_available() is called again and again
LiveProvider == SpecProvider /\ WF_vars(is_available)

\* the latest call of is_available() found the endpoint up / answered yes
LastUp == Len(history) > 0 /\ history[Len(history)].up

LastAnswer == Len(history) > 0 /\ history[Len(history)].answer

\* C24: the availability answer is cached for a bounded period only: when
\* the endpoint changes after a check and then stays as it is, a later call
\* of is_available() reports the new state.
C24_ChangeIsReported ==
  /\ []((Len(history) > 0 /\ ~LastUp /\ []reachable) => <>LastAnswer)
  /\ []((Len(history) > 0 /\ LastUp /\ []~reachable) => <>~LastAnswer)

(***************************************************************************)
(* The connection of a tool call: get_db_connection() before the try       *)
(* block, release_db_connection(conn) in the finally clause.  history      *)
(* lists the calls with the connection each obtained, the path it took and *)
(* what was done with the connection.                                      *)
(***************************************************************************)
\* the calls: one that finds its rows, one that fails validation, one whose
\* row does not exist, and a query
ConnectionCalls ==
  { [tool |-> "mark_gold_star_complete",
     kwargs |-> [store_nbr |-> Str(StorePool[1]), note_number |-> Num(n), completed |-> Bool(TRUE)]] :
       n \in { 1, MaxNoteNumber } }
  \cup { [tool |-> "mark_enabler_complete", kwargs |-> [enabler_id |-> Num(e), store_nbr |-> Str(StorePool[1])]] :
           e \in { 9 } }
  \cup { [tool |-> "get_contacts", kwargs |-> [search_term |-> Str("meat")]] }

\* the faults on the paths of a call
ConnectionFaults == { "ok", "getconn_fail", "connect_fail", "stmt_fail", "rollback_fail" }

\* what the call obtains before its try block: nothing when the validation
\* returns first or get_db_connection raises
Obtained(call, pooled, scenario) ==
  IF call.tool \in ActionToolNames /\ Invalid(call.tool, call.kwargs) # "" THEN "none"
  ELSE IF get_db_connection(pooled, scenario) = "raise" THEN "none"
  ELSE get_db_connection(pooled, scenario)

\* the path through the try statement: the statements succeed and the
\* function returns its result (ok) or returns early (a row is not found),
\* a statement raises and the except clause returns, or the rollback in the
\* except clause raises
PathOf(scenario, o) ==
  IF scenario \in { "stmt_fail", "rollback_fail" } THEN scenario
  ELSE IF IsRejection(o) THEN "early_return"
  ELSE "ok"

\* a release only after the last statement of the try block
FinallyReleases_NoFinally(path) == IF path = "ok" THEN 1 ELSE 0

\* finally: release_db_connection(conn) runs once on every path out of the try statement
FinallyReleases(path) == 1

\* release_db_connection(conn): putconn for a connection of the pool; for a
\* direct connection putconn raises when there is a pool, and the
\* connection is closed
ReleasedBy(pooled, conn) == IF pooled /\ conn = "pool" THEN "putconn" ELSE "close"

InitConnections ==
  /\ message = ""
  /\ decision = NotRouted
  /\ db = SeedStore
  /\ _db_pool \in BOOLEAN
  /\ pool_out = 0
  /\ calls = 0
  /\ lastCall = NoCall
  /\ outcome = NotCalled
  /\ NoChat

\* one tool call from get_db_connection() to the end of its finally clause
ToolCallOnConnection ==
  /\ CanServe
  /\ \E call \in ConnectionCalls, scenario \in ConnectionFaults :
       LET r == CallTool(call.tool, db, call.kwargs, _db_pool, scenario, today)
           conn == Obtained(call, _db_pool, scenario)
           path == PathOf(scenario, r.outcome)
           releases == IF conn = "none" THEN 0 ELSE FinallyReleases(path)
       IN  /\ db' = r.db
           /\ lastCall' = [tool |-> call.tool, kwargs |-> call.kwargs]
           /\ outcome' = r.outcome
           /\ pool_out' = pool_out + (IF conn = "pool" THEN 1 ELSE 0)
                                   - (IF conn # "none" /\ ReleasedBy(_db_pool, conn) = "putconn" THEN releases ELSE 0)
           /\ history' = Append(history, [op |-> call.tool, ok |-> r.outcome.kind = "returned" /\ ~IsRejection(r.outcome),
                                          conn |-> conn, path |-> path,
                                          putconn |-> IF conn # "none" /\ ReleasedBy(_db_pool, conn) = "putconn"
                                                      THEN releases ELSE 0,
                                          closed |-> IF conn # "none" /\ ReleasedBy(_db_pool, conn) = "close"
                                                     THEN releases ELSE 0])
  /\ UNCHANGED << routeVars, _db_pool, calls, chatVars, sessions, procVars >>

NextConnections == ToolCallOnConnection

SpecConnections == InitConnections /\ [][NextConnections]_vars

Coalesce(excluded, old) == IF excluded = None THEN old ELSE excluded

\* update_market_note: status 'completed' sets completed; the INSERT names
\* every column, and on a conflict each column keeps its value where the
\* request gives none
update_market_note_run(d, data) ==
  LET completed == IF data.status = Str("completed") THEN Bool(TRUE) ELSE data.completed
      old == NoteRow(d, data.visit_id, data.note_text)
  IN  PutNote(d, [old EXCEPT !.completed = Coalesce(completed, old.completed),
                             !.status = Coalesce(data.status, old.status),
                             !.assigned_to = Coalesce(data.assigned_to, old.assigned_to)])

\* toggle_market_note: status = 'completed' if completed else 'new', and
\* both columns are overwritten on a conflict
toggle_market_note_run(d, data) ==
  PutNote(d, [NoteRow(d, data.visit_id, data.note_text)
                EXCEPT !.completed = Bool(data.completed),
                       !.status = Str(IF data.completed THEN "completed" ELSE "new")])

\* the calls of the three tools on the note of visit 7
MarketNoteCalls ==
  { [tool |-> "update_market_note_status",
     kwargs |-> [visit_id |-> Num(7), note_text |-> Str("fix freezer"), status |-> Str(status)]] :
       status \in { "in_progress", "completed", "done" } }
  \cup { [tool |-> "mark_market_note_complete", kwargs |-> [visit_id |-> Num(7), note_text |-> Str("fix freezer")]],
         [tool |-> "assign_market_note",
          kwargs |-> [visit_id |-> Num(7), note_text |-> Str("fix freezer"), assigned_to |-> Str("Ann")]] }

\* the JSON bodies of POST /api/market-notes/update
MarketNoteUpdates ==
  [visit_id : { 7 }, note_text : { "fix freezer" }, status : { None, Str("in_progress"), Str("completed") },
   assigned_to : { None, Str("Ann") }, completed : { None, Bool(TRUE), Bool(FALSE) }]

InitMarketNotes ==
  /\ message = ""
  /\ decision = NotRouted
  /\ db = SeedStore
  /\ _db_pool = TRUE
  /\ pool_out = 0
  /\ calls = 0
  /\ lastCall = NoCall
  /\ outcome = NotCalled
  /\ NoChat

\* a call of one of the three tools
WriteMarketNote ==
  /\ CanServe
  /\ \E call \in MarketNoteCalls, scenario \in { "ok", "stmt_fail" } :
       LET r == CallTool(call.tool, db, call.kwargs, _db_pool, scenario, today)
       IN  Served(call.tool, call.kwargs, r.db, Succeeded(r.outcome))

\* POST /api/market-notes/update
update_market_note ==
  /\ CanServe
  /\ _db_pool
  /\ \E data \in MarketNoteUpdates : Served("update_market_note", data, update_market_note_run(db, data), TRUE)

\* POST /api/market-notes/toggle
toggle_market_note ==
  /\ CanServe
  /\ _db_pool
  /\ \E completed \in BOOLEAN :
       LET data == [visit_id |-> 7, note_text |-> "fix freezer", completed |-> completed]
       IN  Served("toggle_market_note", data, toggle_market_note_run(db, data), TRUE)

NextMarketNotes == WriteMarketNote \/ update_market_note \/ toggle_market_note

SpecMarketNotes == InitMarketNotes /\ [][NextMarketNotes]_vars

\* C27: in every reachable state each market-note completion record has
\* completed = true exactly when its status is 'completed', after any
\* sequence of the three action tools and the two HTTP handlers.
C27_CompletedIffStatus ==
  \A r \in db.market_note_completions : (r.completed = Bool(TRUE)) <=> (r.status = Str("completed"))

(***************************************************************************)
(* get_orchestrator() called by the threads that serve requests.  Each     *)
(* thread runs the function statement by statement; _orchestrator is the   *)
(* module's global (0 for None, otherwise the instance), history lists the *)
(* instances JaxAIOrchestrator() has constructed, sessions holds for each  *)
(* thread its position, the instance it was returned last and the number   *)
(* of calls it has made.                                                   *)
(***************************************************************************)
MaxThreads == 2

Threads == 1..MaxThreads

InitOrchestrator ==
  /\ message = ""
  /\ decision = NotRouted
  /\ db = SeedStore
  /\ _db_pool = TRUE
  /\ pool_out = 0
  /\ calls = 0
  /\ lastCall = NoCall
  /\ outcome = NotCalled
  /\ manual_router = << >>
  /\ adk_agent = FALSE
  /\ llm_available = FALSE
  /\ today = "2026-11-02"
  /\ reply = NotCalled
  /\ trace = NoSteps
  /\ history = << >>
  /\ sessions = [t \in Threads |-> [pc |-> "idle", got |-> 0, n |-> 0]]
  /\ NoProcess

OrchestratorFrame == UNCHANGED << routeVars, toolVars, chatVars, llm_provider, reachable >>

\* a request calls process_chat_message, which calls get_orchestrator(db_pool)
process_chat_message(t) ==
  /\ sessions[t].pc = "idle"
  /\ sessions[t].n < MaxRequests
  /\ sessions' = [sessions EXCEPT ![t].pc = "test", ![t].n = @ + 1]
  /\ UNCHANGED << history, _orchestrator >>
  /\ OrchestratorFrame

\* if _orchestrator is None:
TestOrchestrator(t) ==
  /\ sessions[t].pc = "test"
  /\ sessions' = [sessions EXCEPT ![t].pc = IF _orchestrator = 0 THEN "construct" ELSE "return"]
  /\ UNCHANGED << history, _orchestrator >>
  /\ OrchestratorFrame

\* _orchestrator = JaxAIOrchestrator(db_pool=db_pool): __init__ creates the
\* provider, the router and the agent, then the global is assigned
ConstructOrchestrator(t) ==
  /\ sessions[t].pc = "construct"
  /\ history' = Append(history, [instance |-> Len(history) + 1, thread |-> t])
  /\ _orchestrator' = Len(history) + 1
  /\ sessions' = [sessions EXCEPT ![t].pc = "return"]
  /\ OrchestratorFrame

\* return _orchestrator
ReturnOrchestrator(t) ==
  /\ sessions[t].pc = "return"
  /\ sessions' = [sessions EXCEPT ![t].pc = "idle", ![t].got = _orchestrator]
  /\ UNCHANGED << history, _orchestrator >>
  /\ OrchestratorFrame

NextOrchestrator ==
  \E t \in Threads :
    \/ process_chat_message(t)
    \/ TestOrchestrator(t)
    \/ ConstructOrchestrator(t)
    \/ ReturnOrchestrator(t)

SpecOrchestrator == InitOrchestrator /\ [][NextOrchestrator]_vars

\* C28: get_orchestrator returns the same instance to every caller and at
\* most one JaxAIOrchestrator is ever constructed, also when several
\* requests call it concurrently before the first instance exists.
C28_OneOrchestrator ==
  /\ Len(history) <= 1
  /\ \A t, u \in Threads : (sessions[t].got # 0 /\ sessions[u].got # 0) => sessions[t].got = sessions[u].got

====
